---- MODULE Spec2Model ----
(***************************************************************************)
(* A model of the metric value engine of rust-prometheus: the counter and  *)
(* its atomic cell, the histogram core, the thread-local buffers, the      *)
(* scoped timer and the label-keyed metric vector.                         *)
(*                                                                         *)
(* Floating point values (f64) are modelled as integers: every sum in the  *)
(* model is exact.                                                         *)
(***************************************************************************)
EXTENDS Integers, Sequences, FiniteSets, TLC

(***************************************************************************)
(* Bounds of the model.                                                    *)
(***************************************************************************)
NumThreads == 2      \* concurrent callers of one shared counter
MaxDelta   == 2      \* largest argument of inc_by
MaxCalls   == 3      \* inc/inc_by calls issued in one behaviour
MaxCollects == 2     \* get()/collect() calls issued in one behaviour

Threads == 1 .. NumThreads

VARIABLES
  \* ---- one shared counter under concurrent callers (SpecCounter) ----
  atomic,    \* which Atomic backs the counter: "AtomicI64" or "AtomicF64"
  cell,      \* the value held by the Atomic (Value::val)
  pc,        \* pc[t]: position of thread t inside Atomic::inc_by
  arg,       \* arg[t]: the delta of the inc_by call thread t is in
  old,       \* old[t]: the value thread t loaded for its compare-and-swap
  issued,    \* history: sum of the deltas of all calls started
  calls,     \* history: number of calls started
  retried,   \* history: some compare-and-swap failed and was retried, or
             \* (SpecRace) some re-check under the write lock found the child
  snap,      \* what the last collect() of the reader returned
  ncollect,  \* history: number of collect() calls of the reader
  \* ---- one shared metric and its local buffers and timers (SpecLocal) ----
  metric,    \* the shared metric: a counter's Value or a HistogramCore
  local,     \* local[b]: GenericLocalCounter / LocalHistogramCore of buffer b
  timer,     \* timer[k]: HistogramTimer k
  last,      \* history: the operation of the last step and its arguments
  nops,      \* history: number of operations performed
  published, \* history: bag of the observations that reached the histogram
  pending,   \* history: pending[b], bag of the observations buffered in b
  tobs,      \* history: tobs[k], observations timer k has fed to its histogram
  wrote,     \* history: the last step wrote to a cell of the shared metric
  debug_assertions, \* cfg!(debug_assertions): the build checks debug_assert!
  panicked,  \* the last call ended in a panic instead of returning
  \* ---- one metric vector, its handles and local vectors (SpecVec) ----
  vtype,     \* the vector is a CounterVec ("counter") or a HistogramVec
  children,  \* MetricVecCore::children: hash of the label values -> child
  heap,      \* heap[id]: the child (Arc<Value> / Arc<HistogramCore>) with id
  handle,    \* handle[t]: the child thread t got from with_label_values
  lvec,      \* lvec[n]: GenericLocalCounterVec / LocalHistogramVec n
  ret,       \* what the last call returned
  stale,     \* history: the child of handle[t] was removed after t got it
  removed,   \* history: hashes removed and not resolved again since
  applied,   \* history: applied[h], what was added for the tuple with hash h,
             \* through local vectors or to its child, since its last removal
  \* ---- one call of a constructor helper (SpecBuckets) ----
  call,      \* the function called and its arguments
  result     \* what the call returned

counterVars == <<atomic, cell, pc, arg, old, issued, calls, retried, snap, ncollect>>

localVars == <<metric, local, timer, published, pending, tobs, wrote,
               debug_assertions, panicked>>

opVars == <<last, nops>>

vecVars == <<vtype, children, heap, handle, lvec, ret, stale, removed, applied>>

callVars == <<call, result>>

vars == <<atomic, cell, pc, arg, old, issued, calls, retried, snap, ncollect,
          metric, local, timer, published, pending, tobs, wrote,
          debug_assertions, panicked, last, nops,
          vtype, children, heap, handle, lvec, ret, stale, removed, applied,
          call, result>>

(***************************************************************************)
(* Number::from_i64: the conversion of an i64 literal to the numeric type  *)
(* of the metric.  Values are integers in the model.                       *)
(***************************************************************************)
from_i64(v) == v

(***************************************************************************)
(* The Atomic trait (atomic64/mod.rs) and its two implementations.  The    *)
(* implementations live in atomic64/fallback.rs: AtomicI64 increments with *)
(* one hardware fetch-add, AtomicF64 with a compare-and-swap retry loop.   *)
(***************************************************************************)
AtomicNew(val) == val

AtomicGet == cell

\* Atomic::set: one store, last writer wins.
AtomicSet(t, val) ==
  /\ pc[t] = "idle"
  /\ cell' = val
  /\ UNCHANGED <<atomic, pc, arg, old, retried>>

\* Atomic::inc_by is entered: the thread is now inside the call.
AtomicIncBy(t, delta) ==
  /\ pc[t] = "idle"
  /\ pc' = [pc EXCEPT ![t] = IF atomic = "AtomicI64" THEN "fetch_add" ELSE "load"]
  /\ arg' = [arg EXCEPT ![t] = delta]
  /\ UNCHANGED <<atomic, cell, old, retried>>

\* AtomicI64::inc_by: fetch_add, one atomic read-modify-write.
AtomicFetchAdd(t) ==
  /\ pc[t] = "fetch_add"
  /\ cell' = cell + arg[t]
  /\ pc' = [pc EXCEPT ![t] = "idle"]
  /\ UNCHANGED <<atomic, arg, old, retried>>

\* AtomicF64::inc_by, first half of one round of the loop: load the bits.
AtomicLoad(t) ==
  /\ pc[t] = "load"
  /\ old' = [old EXCEPT ![t] = cell]
  /\ pc' = [pc EXCEPT ![t] = "cas"]
  /\ UNCHANGED <<atomic, cell, arg, retried>>

\* AtomicF64::inc_by, second half: compare-and-swap, retry when it fails.
AtomicCas(t) ==
  /\ pc[t] = "cas"
  /\ IF cell = old[t]
       THEN /\ cell' = old[t] + arg[t]
            /\ pc' = [pc EXCEPT ![t] = "idle"]
            /\ UNCHANGED retried
       ELSE /\ pc' = [pc EXCEPT ![t] = "load"]
            /\ retried' = TRUE
            /\ UNCHANGED cell
  /\ UNCHANGED <<atomic, arg, old>>

(***************************************************************************)
(* Value<P> (value.rs): the shared metric value, one Atomic cell.          *)
(***************************************************************************)
ValueGet == AtomicGet

ValueSet(t, val) == AtomicSet(t, val)

\* the slip of writing the delta instead of adding it
ValueIncBy_set(t, val) == AtomicSet(t, val)

ValueIncBy(t, val) == AtomicIncBy(t, val)

ValueInc(t) == ValueIncBy(t, from_i64(1))

\* Value::metric: the value read with one get()
ValueMetric == [value |-> ValueGet]

\* the slip of taking the value out of the cell when it is collected
ValueCollect_take ==
  /\ snap' = [res |-> "ok", metric |-> <<ValueMetric>>]
  /\ cell' = from_i64(0)
  /\ UNCHANGED <<atomic, pc, arg, old, retried>>

\* Value::collect, by a reader that is none of the incrementing threads: the
\* family with the one metric
ValueCollect ==
  /\ snap' = [res |-> "ok", metric |-> <<ValueMetric>>]
  /\ UNCHANGED <<atomic, cell, pc, arg, old, retried>>

(***************************************************************************)
(* GenericCounter<P> (counter.rs).                                         *)
(***************************************************************************)
\* inc_by: debug_assert!(v >= 0), then Value::inc_by.
CounterIncBy(t, v) ==
  /\ v >= from_i64(0)
  /\ ValueIncBy(t, v)

CounterInc(t) == ValueInc(t)

CounterGet == ValueGet

\* the variables of the other specifications, at rest
IdleLocal ==
  /\ metric = [type |-> "none"]
  /\ local = <<>>
  /\ timer = <<>>
  /\ published = <<>>
  /\ pending = <<>>
  /\ tobs = <<>>
  /\ wrote = FALSE
  /\ debug_assertions = TRUE
  /\ panicked = FALSE

IdleOps ==
  /\ last = [op |-> "init", who |-> 0, v |-> 0]
  /\ nops = 0

IdleVec ==
  /\ vtype = "none"
  /\ children = <<>>
  /\ heap = <<>>
  /\ handle = <<>>
  /\ lvec = <<>>
  /\ ret = [res |-> "none"]
  /\ stale = <<>>
  /\ removed = {}
  /\ applied = <<>>

IdleCall ==
  /\ call = [fn |-> "none"]
  /\ result = [res |-> "none"]

IdleCounter ==
  /\ atomic = "AtomicI64"
  /\ cell = 0
  /\ pc = <<>>
  /\ arg = <<>>
  /\ old = <<>>
  /\ issued = 0
  /\ calls = 0
  /\ retried = FALSE
  /\ snap = [res |-> "none"]
  /\ ncollect = 0

(***************************************************************************)
(* SpecCounter: NumThreads threads share one fresh counter and call inc    *)
(* and inc_by on it in any interleaving.                                   *)
(***************************************************************************)
InitCounter ==
  /\ IdleCall
  /\ IdleLocal
  /\ IdleOps
  /\ IdleVec
  /\ atomic \in {"AtomicI64", "AtomicF64"}
  /\ cell = AtomicNew(from_i64(0))
  /\ pc = [t \in Threads |-> "idle"]
  /\ arg = [t \in Threads |-> 0]
  /\ old = [t \in Threads |-> 0]
  /\ issued = 0
  /\ calls = 0
  /\ retried = FALSE
  /\ snap = [res |-> "none"]
  /\ ncollect = 0

CallIncBy ==
  \E t \in Threads, d \in 0 .. MaxDelta :
    /\ calls < MaxCalls
    /\ CounterIncBy(t, d)
    /\ issued' = issued + d
    /\ calls' = calls + 1
    /\ UNCHANGED <<snap, ncollect>>
    /\ UNCHANGED <<localVars, opVars, vecVars, callVars>>

CallInc ==
  \E t \in Threads :
    /\ calls < MaxCalls
    /\ CounterInc(t)
    /\ issued' = issued + 1
    /\ calls' = calls + 1
    /\ UNCHANGED <<snap, ncollect>>
    /\ UNCHANGED <<localVars, opVars, vecVars, callVars>>

StepFetchAdd == \E t \in Threads : AtomicFetchAdd(t) /\ UNCHANGED <<issued, calls, snap, ncollect>> /\ UNCHANGED <<localVars, opVars, vecVars, callVars>>

StepLoad == \E t \in Threads : AtomicLoad(t) /\ UNCHANGED <<issued, calls, snap, ncollect>> /\ UNCHANGED <<localVars, opVars, vecVars, callVars>>

StepCas == \E t \in Threads : AtomicCas(t) /\ UNCHANGED <<issued, calls, snap, ncollect>> /\ UNCHANGED <<localVars, opVars, vecVars, callVars>>

CallCollect ==
  /\ ncollect < MaxCollects
  /\ ncollect' = ncollect + 1
  /\ ValueCollect
  /\ UNCHANGED <<issued, calls>>
  /\ UNCHANGED <<localVars, opVars, vecVars, callVars>>

NextCounter ==
  \/ CallIncBy
  \/ CallInc
  \/ CallCollect
  \/ StepFetchAdd
  \/ StepLoad
  \/ StepCas

SpecCounter == InitCounter /\ [][NextCounter]_vars

\* C1: once every inc()/inc_by(d) call issued by the concurrent callers of a
\* fresh counter has returned, get() equals the sum of all increments: none
\* is lost and none is counted twice.
C1_NoLostIncrement ==
  (\A t \in Threads : pc[t] = "idle") => CounterGet = issued

\* all calls have returned, two of them raced on the compare-and-swap
C1_Witness ==
  /\ \A t \in Threads : pc[t] = "idle"
  /\ retried
  /\ calls = MaxCalls
  /\ issued >= 2

RECURSIVE SumArgs(_)
\* the sum of the deltas of the calls the threads of T are in
SumArgs(T) ==
  IF T = {} THEN 0
  ELSE LET t == CHOOSE x \in T : TRUE IN arg[t] + SumArgs(T \ {t})

\* the threads inside an inc/inc_by call
InFlight == {t \in Threads : pc[t] # "idle"}

NumBufs   == 2       \* local buffers over the shared metric
NumTimers == 1       \* timers started on the shared histogram
MaxBound  == 2       \* bucket upper bounds are drawn from 1 .. MaxBound
MaxOps    == 4       \* operations performed in one behaviour

Bufs == 1 .. NumBufs

Timers == 1 .. NumTimers

\* the values observed: below, on, between and above the bucket bounds
Values == 0 .. MaxBound + 1

\* the bucket lists a histogram can hold: non-empty and strictly increasing
BucketLists ==
  { B \in UNION { [1 .. n -> 1 .. MaxBound] : n \in 1 .. MaxBound } :
      \A i \in 1 .. Len(B) - 1 : B[i] < B[i + 1] }

(***************************************************************************)
(* Bags of observed values, for the history variables.                     *)
(***************************************************************************)
EmptyBag == [v \in Values |-> 0]

BagAdd(B, v) == [B EXCEPT ![v] = @ + 1]

BagUnion(A, B) == [v \in Values |-> A[v] + B[v]]

RECURSIVE BagCountLeq(_, _)
\* the number of values <= bound in bag B
BagCountLeq(B, bound) ==
  IF bound < 0 THEN 0
  ELSE (IF bound \in Values THEN B[bound] ELSE 0) + BagCountLeq(B, bound - 1)

BagSize(B) == BagCountLeq(B, MaxBound + 1)

RECURSIVE BagSumUpTo(_, _)
BagSumUpTo(B, n) == IF n < 0 THEN 0 ELSE n * B[n] + BagSumUpTo(B, n - 1)

BagSum(B) == BagSumUpTo(B, MaxBound + 1)

(***************************************************************************)
(* The shared metric of SpecLocal.  Every call on it is one step here:     *)
(* SpecCounter shows that a completed inc_by has the effect of one atomic  *)
(* addition.                                                               *)
(***************************************************************************)
\* Value::new: a counter value, initially val
ValueNew(val) == [type |-> "counter", val |-> AtomicNew(val)]

\* the effect of a completed Value::inc_by on the value m
ValueAfterIncBy(m, val) == [m EXCEPT !.val = @ + val]

\* the slip of keeping a count for the implicit +Inf bucket as well
HistogramCoreNew_inf(buckets) ==
  [type |-> "histogram",
   sum |-> AtomicNew(0),
   count |-> AtomicNew(0),
   upper_bounds |-> buckets,
   counts |-> [i \in 1 .. Len(buckets) + 1 |-> AtomicNew(0)]]

\* HistogramCore::new: one zeroed count per bucket, zero sum and count
HistogramCoreNew(buckets) ==
  [type |-> "histogram",
   sum |-> AtomicNew(0),
   count |-> AtomicNew(0),
   upper_bounds |-> buckets,
   counts |-> [i \in 1 .. Len(buckets) |-> AtomicNew(0)]]

\* upper_bounds.iter().enumerate().filter(|&(_, f)| v <= *f): the indices kept
FilterBounds(upper_bounds, v) ==
  SelectSeq([i \in 1 .. Len(upper_bounds) |-> i], LAMBDA i : v <= upper_bounds[i])

\* the slip of comparing with < instead of <=
CoreObserve_lt(core, v) ==
  LET iter == SelectSeq([i \in 1 .. Len(core.upper_bounds) |-> i],
                        LAMBDA i : v < core.upper_bounds[i])
  IN [core EXCEPT !.counts = IF iter # <<>> THEN [@ EXCEPT ![Head(iter)] = @ + 1] ELSE @,
                  !.count = @ + 1,
                  !.sum = @ + v]

\* HistogramCore::observe
CoreObserve(core, v) ==
  LET iter == FilterBounds(core.upper_bounds, v)
  IN [core EXCEPT !.counts = IF iter # <<>> THEN [@ EXCEPT ![Head(iter)] = @ + 1] ELSE @,
                  !.count = @ + 1,
                  !.sum = @ + v]

RECURSIVE RunningCount(_, _)
\* the value of `count` in HistogramCore::proto after i rounds of its loop
RunningCount(counts, i) ==
  IF i = 0 THEN 0 ELSE RunningCount(counts, i - 1) + counts[i]

\* the slip of exporting the raw count of each bucket
CoreProto_raw(core) ==
  [sample_sum |-> core.sum,
   sample_count |-> core.count,
   bucket |-> [i \in 1 .. Len(core.upper_bounds) |->
                 [cumulative_count |-> core.counts[i],
                  upper_bound |-> core.upper_bounds[i]]]]

\* HistogramCore::proto: the exported snapshot
CoreProto(core) ==
  [sample_sum |-> core.sum,
   sample_count |-> core.count,
   bucket |-> [i \in 1 .. Len(core.upper_bounds) |->
                 [cumulative_count |-> RunningCount(core.counts, i),
                  upper_bound |-> core.upper_bounds[i]]]]

(***************************************************************************)
(* GenericLocalCounter<P> (counter.rs).                                    *)
(***************************************************************************)
LocalCounterNew == [state |-> "live", val |-> from_i64(0)]

\* GenericCounter::local
CounterLocal(b) ==
  /\ metric.type = "counter"
  /\ local[b].state = "none"
  /\ local' = [local EXCEPT ![b] = LocalCounterNew]
  /\ UNCHANGED <<metric, timer>>

\* debug_assert!(cond) fails: only a build with debug assertions checks it
DebugAssertFails(cond) == debug_assertions /\ ~cond

\* the slip of incrementing the shared counter as well
LocalCounterIncBy_through(b, v) ==
  /\ metric.type = "counter"
  /\ local[b].state = "live"
  /\ IF DebugAssertFails(v >= from_i64(0))
       THEN /\ panicked' = TRUE
            /\ UNCHANGED <<local, metric>>
       ELSE /\ panicked' = FALSE
            /\ local' = [local EXCEPT ![b].val = @ + v]
            /\ metric' = ValueAfterIncBy(metric, v)
  /\ UNCHANGED timer

\* the slip of checking the argument after it was added
LocalCounterIncBy_late(b, v) ==
  /\ metric.type = "counter"
  /\ local[b].state = "live"
  /\ local' = [local EXCEPT ![b].val = @ + v]
  /\ panicked' = DebugAssertFails(v >= from_i64(0))
  /\ UNCHANGED <<metric, timer>>

\* GenericLocalCounter::inc_by: debug_assert!(v >= 0), then self.val += v
LocalCounterIncBy(b, v) ==
  /\ metric.type = "counter"
  /\ local[b].state = "live"
  /\ IF DebugAssertFails(v >= from_i64(0))
       THEN /\ panicked' = TRUE
            /\ UNCHANGED local
       ELSE /\ panicked' = FALSE
            /\ local' = [local EXCEPT ![b].val = @ + v]
  /\ UNCHANGED <<metric, timer>>

LocalCounterInc(b) ==
  /\ metric.type = "counter"
  /\ local[b].state = "live"
  /\ local' = [local EXCEPT ![b].val = @ + from_i64(1)]
  /\ UNCHANGED <<metric, timer>>

LocalCounterGet(b) == local[b].val

\* the slip of adding the delta without the test for zero
LocalCounterFlushed_always(m, l) ==
  [shared |-> ValueAfterIncBy(m, l.val),
   local |-> [l EXCEPT !.val = from_i64(0)],
   wrote |-> TRUE]

\* the slip of leaving the flushed delta in the buffer
LocalCounterFlushed_keep(m, l) ==
  IF l.val = from_i64(0)
    THEN [shared |-> m, local |-> l, wrote |-> FALSE]
    ELSE [shared |-> ValueAfterIncBy(m, l.val),
          local |-> l,
          wrote |-> TRUE]

\* the slip of storing the delta instead of adding it
LocalCounterFlushed_set(m, l) ==
  IF l.val = from_i64(0)
    THEN [shared |-> m, local |-> l, wrote |-> FALSE]
    ELSE [shared |-> [m EXCEPT !.val = l.val],
          local |-> [l EXCEPT !.val = from_i64(0)],
          wrote |-> TRUE]

\* GenericLocalCounter::flush: the shared value and the buffer after it, and
\* whether the shared cell was written
LocalCounterFlushed(m, l) ==
  IF l.val = from_i64(0)
    THEN [shared |-> m, local |-> l, wrote |-> FALSE]
    ELSE [shared |-> ValueAfterIncBy(m, l.val),
          local |-> [l EXCEPT !.val = from_i64(0)],
          wrote |-> TRUE]

LocalCounterFlush(b) ==
  /\ metric.type = "counter"
  /\ local[b].state = "live"
  /\ metric' = LocalCounterFlushed(metric, local[b]).shared
  /\ local' = [local EXCEPT ![b] = LocalCounterFlushed(metric, local[b]).local]
  /\ UNCHANGED timer

\* A GenericLocalCounter goes out of scope.  The type has no Drop
\* implementation: its fields are released and nothing else happens.
LocalCounterDrop(b) ==
  /\ metric.type = "counter"
  /\ local[b].state = "live"
  /\ local' = [local EXCEPT ![b] = [state |-> "dropped"]]
  /\ UNCHANGED <<metric, timer>>

\* GenericCounter::inc_by and inc on the shared counter itself
SharedCounterIncBy(v) ==
  /\ metric.type = "counter"
  /\ IF DebugAssertFails(v >= from_i64(0))
       THEN /\ panicked' = TRUE
            /\ UNCHANGED metric
       ELSE /\ panicked' = FALSE
            /\ metric' = ValueAfterIncBy(metric, v)
  /\ UNCHANGED <<local, timer>>

SharedCounterInc ==
  /\ metric.type = "counter"
  /\ metric' = ValueAfterIncBy(metric, from_i64(1))
  /\ UNCHANGED <<local, timer>>

(***************************************************************************)
(* LocalHistogramCore and LocalHistogram (histogram.rs).                   *)
(***************************************************************************)
LocalHistogramCoreNew(histogram) ==
  [state |-> "live",
   counts |-> [i \in 1 .. Len(histogram.counts) |-> 0],
   count |-> 0,
   sum |-> 0]

\* LocalHistogramCore::observe
LocalCoreObserve(l, histogram, v) ==
  LET iter == FilterBounds(histogram.upper_bounds, v)
  IN [l EXCEPT !.counts = IF iter # <<>> THEN [@ EXCEPT ![Head(iter)] = @ + 1] ELSE @,
               !.count = @ + 1,
               !.sum = @ + v]

\* the slip of leaving the sum as it is
LocalCoreClear_sum(l) ==
  [l EXCEPT !.counts = [i \in DOMAIN l.counts |-> 0], !.count = 0]

\* LocalHistogramCore::clear
LocalCoreClear(l) ==
  [l EXCEPT !.counts = [i \in DOMAIN l.counts |-> 0], !.count = 0, !.sum = 0]

\* the slip of taking a zero sum for an empty buffer
LocalCoreFlushed_sum(histogram, l) ==
  IF l.sum = 0
    THEN [shared |-> histogram, local |-> l, wrote |-> FALSE]
    ELSE [shared |-> [histogram EXCEPT
                        !.counts = [i \in DOMAIN @ |->
                                      IF l.counts[i] > 0 THEN @[i] + l.counts[i] ELSE @[i]],
                        !.count = @ + l.count,
                        !.sum = @ + l.sum],
          local |-> LocalCoreClear(l),
          wrote |-> TRUE]

\* LocalHistogramCore::flush: the shared core and the buffer after it
LocalCoreFlushed(histogram, l) ==
  IF l.count = 0
    THEN [shared |-> histogram, local |-> l, wrote |-> FALSE]
    ELSE [shared |-> [histogram EXCEPT
                        !.counts = [i \in DOMAIN @ |->
                                      IF l.counts[i] > 0 THEN @[i] + l.counts[i] ELSE @[i]],
                        !.count = @ + l.count,
                        !.sum = @ + l.sum],
          local |-> LocalCoreClear(l),
          wrote |-> TRUE]

\* Histogram::local
HistogramLocal(b) ==
  /\ metric.type = "histogram"
  /\ local[b].state = "none"
  /\ local' = [local EXCEPT ![b] = LocalHistogramCoreNew(metric)]
  /\ UNCHANGED <<metric, timer>>

\* LocalHistogram::observe
LocalHistogramObserve(b, v) ==
  /\ metric.type = "histogram"
  /\ local[b].state = "live"
  /\ local' = [local EXCEPT ![b] = LocalCoreObserve(local[b], metric, v)]
  /\ UNCHANGED <<metric, timer>>

\* LocalHistogram::clear
LocalHistogramClear(b) ==
  /\ metric.type = "histogram"
  /\ local[b].state = "live"
  /\ local' = [local EXCEPT ![b] = LocalCoreClear(local[b])]
  /\ UNCHANGED <<metric, timer>>

\* LocalHistogram::flush
LocalHistogramFlush(b) ==
  /\ metric.type = "histogram"
  /\ local[b].state = "live"
  /\ metric' = LocalCoreFlushed(metric, local[b]).shared
  /\ local' = [local EXCEPT ![b] = LocalCoreFlushed(metric, local[b]).local]
  /\ UNCHANGED timer

\* Drop for LocalHistogram: flush, then the buffer is gone
LocalHistogramDrop(b) ==
  /\ metric.type = "histogram"
  /\ local[b].state = "live"
  /\ metric' = LocalCoreFlushed(metric, local[b]).shared
  /\ local' = [local EXCEPT ![b] = [state |-> "dropped"]]
  /\ UNCHANGED timer

\* Histogram::observe on the shared histogram itself
HistogramObserve(v) ==
  /\ metric.type = "histogram"
  /\ metric' = CoreObserve(metric, v)
  /\ UNCHANGED <<local, timer>>

(***************************************************************************)
(* HistogramTimer (histogram.rs).  The elapsed time v is whatever the      *)
(* clock says when the timer is dropped.                                   *)
(***************************************************************************)
\* Histogram::start_timer
HistogramStartTimer(k) ==
  /\ metric.type = "histogram"
  /\ timer[k].state = "none"
  /\ timer' = [timer EXCEPT ![k] = [state |-> "running", moved |-> FALSE]]
  /\ UNCHANGED <<metric, local>>

\* the timer is moved out of the scope that started it, into another
\* binding or another thread (thread::spawn(move || ..))
HistogramTimerMove(k) ==
  /\ timer[k].state = "running"
  /\ ~timer[k].moved
  /\ timer' = [timer EXCEPT ![k].moved = TRUE]
  /\ UNCHANGED <<metric, local>>

\* Drop for HistogramTimer: self.observe(), then the timer is gone
HistogramTimerDrop(k, v) ==
  /\ timer[k].state = "running"
  /\ metric' = CoreObserve(metric, v)
  /\ timer' = [timer EXCEPT ![k].state = "done"]
  /\ UNCHANGED local

\* the slip of observing through a reference, which leaves the timer alive
HistogramTimerObserveDuration_ref(k, v) ==
  /\ timer[k].state = "running"
  /\ metric' = CoreObserve(metric, v)
  /\ UNCHANGED <<timer, local>>

\* HistogramTimer::observe_duration(self): drop(self)
HistogramTimerObserveDuration(k, v) == HistogramTimerDrop(k, v)

(***************************************************************************)
(* SpecLocal: one fresh shared metric, a counter or a histogram, with its  *)
(* local buffers and timers; every operation is one step.                  *)
(***************************************************************************)
InitLocal ==
  /\ IdleCall
  /\ IdleCounter
  /\ IdleVec
  /\ metric \in {ValueNew(from_i64(0))} \cup {HistogramCoreNew(B) : B \in BucketLists}
  /\ local = [b \in Bufs |-> [state |-> "none"]]
  /\ timer = [k \in Timers |-> [state |-> "none", moved |-> FALSE]]
  /\ last = [op |-> "init", who |-> 0, v |-> 0]
  /\ nops = 0
  /\ published = EmptyBag
  /\ pending = [b \in Bufs |-> EmptyBag]
  /\ tobs = [k \in Timers |-> 0]
  /\ wrote = FALSE
  /\ debug_assertions \in BOOLEAN
  /\ panicked = FALSE

\* history: whether the step wrote to the shared metric; the call returned
Wrote(w) == wrote' = w /\ panicked' = FALSE

\* the arguments of inc_by: negative, zero and positive
Deltas == -1 .. MaxDelta

\* history: the sum of the increments applied so far to the shared counter
\* and to its local counters, after the operation op with argument v.  An
\* inc_by whose debug assertion fails applies nothing.
IssuedAfter(op, v) ==
  IF /\ metric.type = "counter"
     /\ op \in {"inc", "inc_by", "local_inc", "local_inc_by"}
     /\ ~DebugAssertFails(v >= from_i64(0))
    THEN issued + v
    ELSE issued

\* one more operation of at most max, recorded in the history
DidWithin(max, op, who, v) ==
  /\ nops < max
  /\ nops' = nops + 1
  /\ last' = [op |-> op, who |-> who, v |-> v]
  /\ issued' = IssuedAfter(op, v)
  /\ UNCHANGED debug_assertions
  /\ UNCHANGED <<atomic, cell, pc, arg, old, calls, retried, snap, ncollect>>
  /\ UNCHANGED <<vecVars, callVars>>

\* one more operation, recorded in the history
Did(op, who, v) == DidWithin(MaxOps, op, who, v)

DoCounterLocal ==
  \E b \in Bufs :
    Did("local", b, 0) /\ Wrote(FALSE) /\ CounterLocal(b) /\ UNCHANGED <<published, pending, tobs>>

DoLocalCounterIncBy ==
  \E b \in Bufs, d \in Deltas :
    Did("local_inc_by", b, d) /\ wrote' = FALSE /\ LocalCounterIncBy(b, d)
      /\ UNCHANGED <<published, pending, tobs>>

DoLocalCounterInc ==
  \E b \in Bufs :
    Did("local_inc", b, 1) /\ Wrote(FALSE) /\ LocalCounterInc(b) /\ UNCHANGED <<published, pending, tobs>>

DoLocalCounterFlush ==
  \E b \in Bufs :
    Did("local_flush", b, 0) /\ LocalCounterFlush(b)
      /\ Wrote(LocalCounterFlushed(metric, local[b]).wrote)
      /\ UNCHANGED <<published, pending, tobs>>

DoLocalCounterDrop ==
  \E b \in Bufs :
    Did("local_drop", b, 0) /\ Wrote(FALSE) /\ LocalCounterDrop(b)
      /\ UNCHANGED <<published, pending, tobs>>

DoSharedCounterIncBy ==
  \E d \in Deltas :
    Did("inc_by", 0, d) /\ SharedCounterIncBy(d) /\ wrote' = ~panicked'
      /\ UNCHANGED <<published, pending, tobs>>

DoSharedCounterInc ==
  Did("inc", 0, 1) /\ Wrote(TRUE) /\ SharedCounterInc /\ UNCHANGED <<published, pending, tobs>>

DoHistogramLocal ==
  \E b \in Bufs :
    Did("local", b, 0) /\ Wrote(FALSE) /\ HistogramLocal(b) /\ UNCHANGED <<published, pending, tobs>>

DoLocalHistogramObserve ==
  \E b \in Bufs, v \in Values :
    /\ Did("local_observe", b, v) /\ Wrote(FALSE)
    /\ LocalHistogramObserve(b, v)
    /\ pending' = [pending EXCEPT ![b] = BagAdd(@, v)]
    /\ UNCHANGED <<published, tobs>>

DoLocalHistogramClear ==
  \E b \in Bufs :
    /\ nops < MaxOps
    /\ LocalHistogramClear(b)
    /\ Did("local_clear", b, local[b].count) /\ Wrote(FALSE)
    /\ pending' = [pending EXCEPT ![b] = EmptyBag]
    /\ UNCHANGED <<published, tobs>>

DoLocalHistogramFlush ==
  \E b \in Bufs :
    /\ Did("local_flush", b, 0)
    /\ LocalHistogramFlush(b)
    /\ Wrote(LocalCoreFlushed(metric, local[b]).wrote)
    /\ published' = BagUnion(published, pending[b])
    /\ pending' = [pending EXCEPT ![b] = EmptyBag]
    /\ UNCHANGED tobs

DoLocalHistogramDrop ==
  \E b \in Bufs :
    /\ Did("local_drop", b, 0)
    /\ LocalHistogramDrop(b)
    /\ Wrote(LocalCoreFlushed(metric, local[b]).wrote)
    /\ published' = BagUnion(published, pending[b])
    /\ pending' = [pending EXCEPT ![b] = EmptyBag]
    /\ UNCHANGED tobs

DoHistogramObserve ==
  \E v \in Values :
    /\ Did("observe", 0, v) /\ Wrote(TRUE)
    /\ HistogramObserve(v)
    /\ published' = BagAdd(published, v)
    /\ UNCHANGED <<pending, tobs>>

DoStartTimer ==
  \E k \in Timers :
    Did("start_timer", k, 0) /\ Wrote(FALSE) /\ HistogramStartTimer(k)
      /\ UNCHANGED <<published, pending, tobs>>

DoTimerMove ==
  \E k \in Timers :
    Did("timer_move", k, 0) /\ Wrote(FALSE) /\ HistogramTimerMove(k)
      /\ UNCHANGED <<published, pending, tobs>>

\* what a step of timer k adds to the histories
TimerObserved(k, v) ==
  /\ tobs' = [tobs EXCEPT ![k] = @ + (metric'.count - metric.count)]
  /\ published' = BagAdd(published, v)
  /\ UNCHANGED pending

DoObserveDuration ==
  \E k \in Timers, v \in Values :
    Did("observe_duration", k, v) /\ Wrote(TRUE) /\ HistogramTimerObserveDuration(k, v)
      /\ TimerObserved(k, v)

DoTimerScopeEnd ==
  \E k \in Timers, v \in Values :
    Did("timer_scope_end", k, v) /\ Wrote(TRUE) /\ HistogramTimerDrop(k, v) /\ TimerObserved(k, v)

NextLocal ==
  \/ DoCounterLocal
  \/ DoLocalCounterIncBy
  \/ DoLocalCounterInc
  \/ DoLocalCounterFlush
  \/ DoLocalCounterDrop
  \/ DoSharedCounterIncBy
  \/ DoSharedCounterInc
  \/ DoHistogramLocal
  \/ DoLocalHistogramObserve
  \/ DoLocalHistogramClear
  \/ DoLocalHistogramFlush
  \/ DoLocalHistogramDrop
  \/ DoHistogramObserve
  \/ DoStartTimer
  \/ DoTimerMove
  \/ DoObserveDuration
  \/ DoTimerScopeEnd

SpecLocal == InitLocal /\ [][NextLocal]_vars

(***************************************************************************)
(* Properties of the local buffers, the timers and the histogram.          *)
(***************************************************************************)
\* the operations that act on the shared metric directly
SharedOps == {"inc", "inc_by", "observe", "observe_duration", "timer_scope_end"}

\* the buffer holds an unflushed delta
NonZeroDelta(l) ==
  IF metric.type = "counter"
    THEN l.val # 0
    ELSE l.count # 0 \/ l.sum # 0 \/ \E i \in DOMAIN l.counts : l.counts[i] # 0

\* the buffer holds no delta
ZeroDelta(l) ==
  IF metric.type = "counter"
    THEN l.val = 0
    ELSE l.count = 0 /\ l.sum = 0 /\ \A i \in DOMAIN l.counts : l.counts[i] = 0

\* the shared metric after the step is the one before it plus the delta of l
SharedGrowsBy(l) ==
  IF metric.type = "counter"
    THEN metric' = [type |-> "counter", val |-> metric.val + l.val]
    ELSE /\ metric'.type = "histogram"
         /\ metric'.upper_bounds = metric.upper_bounds
         /\ DOMAIN metric'.counts = DOMAIN metric.counts
         /\ \A i \in DOMAIN metric.counts :
              metric'.counts[i] = metric.counts[i] + l.counts[i]
         /\ metric'.count = metric.count + l.count
         /\ metric'.sum = metric.sum + l.sum

\* C3: inc(), inc_by() and observe() on a local buffer change the private
\* delta of that buffer only; the shared metric is unchanged by them, and it
\* changes in no step other than an operation on the shared metric itself or
\* the flush or the end of life of a buffer.
C3_LocalMutationIsPrivate ==
  [][ /\ last'.op \in {"local_inc", "local_inc_by", "local_observe"} =>
           /\ metric' = metric
           /\ \A c \in Bufs \ {last'.who} : local'[c] = local[c]
           /\ timer' = timer
      /\ metric' # metric => last'.op \in SharedOps \cup {"local_flush", "local_drop"}
    ]_vars

\* a buffer has just buffered a second observation, the histogram shows none
C3_Witness ==
  /\ last.op = "local_observe"
  /\ metric.type = "histogram"
  /\ local[last.who].count = 2
  /\ metric.count = 0

\* C4: flush() on a local buffer with a non-zero delta adds exactly that
\* delta to the shared metric (the counter value; every bucket count, the
\* count and the sum of the histogram) and leaves the local delta at zero.
C4_FlushPublishesDelta ==
  [][ (last'.op = "local_flush" /\ NonZeroDelta(local[last'.who])) =>
         /\ SharedGrowsBy(local[last'.who])
         /\ local'[last'.who].state = "live"
         /\ ZeroDelta(local'[last'.who])
    ]_vars

\* a flush has just published two buffered observations, one of them of 0
C4_Witness ==
  /\ last.op = "local_flush"
  /\ metric.type = "histogram"
  /\ metric.count = 2
  /\ published[0] = 1
  /\ local[last.who].count = 0

\* C5: a local buffer destroyed with a non-zero unflushed delta adds that
\* delta to the shared metric, as flush() would have done.
C5_DropPublishesDelta ==
  [][ (last'.op = "local_drop" /\ NonZeroDelta(local[last'.who])) =>
         SharedGrowsBy(local[last'.who])
    ]_vars

\* C6: every timer feeds exactly one observation to its histogram: none
\* while it runs, one once observe_duration() was called or it went out of
\* scope, in whichever thread it ended.
C6_TimerObservesOnce ==
  \A k \in DOMAIN timer :
    tobs[k] = IF timer[k].state = "done" THEN 1 ELSE 0

\* a timer was moved and then observed by going out of scope
C6_Witness ==
  \E k \in DOMAIN timer :
    /\ timer[k].state = "done"
    /\ timer[k].moved
    /\ last.op = "timer_scope_end"
    /\ metric.count = 2

\* C7: observe(v) increments the raw count of exactly one bucket, the first
\* whose bound is >= v, or of none when v exceeds every bound; it always
\* increments the count by 1 and adds v to the sum.
C7_ObserveFirstBucket ==
  [][ last'.op = "observe" =>
        LET v == last'.v
            ub == metric.upper_bounds
            first(i) == v <= ub[i] /\ \A j \in 1 .. i - 1 : v > ub[j]
        IN /\ metric'.upper_bounds = ub
           /\ DOMAIN metric'.counts = DOMAIN metric.counts
           /\ \A i \in DOMAIN ub :
                metric'.counts[i] = metric.counts[i] + (IF first(i) THEN 1 ELSE 0)
           /\ Cardinality({i \in DOMAIN ub : metric'.counts[i] # metric.counts[i]})
                = IF \E i \in DOMAIN ub : v <= ub[i] THEN 1 ELSE 0
           /\ metric'.count = metric.count + 1
           /\ metric'.sum = metric.sum + v
    ]_vars

\* a value equal to the first of two bounds was just counted in the first bucket
C7_Witness ==
  /\ last.op = "observe"
  /\ metric.type = "histogram"
  /\ Len(metric.upper_bounds) = 2
  /\ last.v = metric.upper_bounds[1]
  /\ metric.counts[1] = 1
  /\ metric.counts[2] = 0

\* C8: in the exported snapshot the cumulative count of bucket i is the
\* number of observations <= bound i, the cumulative counts do not decrease
\* and stay below the sample count, which is the number of observations.
C8_CumulativeCounts ==
  metric.type = "histogram" =>
    LET h == CoreProto(metric)
        n == Len(h.bucket)
    IN /\ n = Len(metric.upper_bounds)
       /\ \A i \in 1 .. n :
            /\ h.bucket[i].upper_bound = metric.upper_bounds[i]
            /\ h.bucket[i].cumulative_count = BagCountLeq(published, metric.upper_bounds[i])
       /\ \A i \in 1 .. n - 1 :
            h.bucket[i].cumulative_count <= h.bucket[i + 1].cumulative_count
       /\ h.bucket[n].cumulative_count <= h.sample_count
       /\ h.sample_count = BagSize(published)
       /\ h.sample_sum = BagSum(published)

\* three observations: one in the first bucket, one in the second, one above
C8_Witness ==
  /\ metric.type = "histogram"
  /\ Len(metric.upper_bounds) = 2
  /\ CoreProto(metric).bucket[1].cumulative_count = 1
  /\ CoreProto(metric).bucket[2].cumulative_count = 2
  /\ CoreProto(metric).sample_count = 3

(***************************************************************************)
(* The metric vector (vec.rs: MetricVec, MetricVecCore) with the builders  *)
(* of its children and its local vectors (counter.rs, histogram.rs).       *)
(***************************************************************************)
NumLocalVecs == 1    \* local vectors over the shared vector
MaxVecOps    == 4    \* operations performed in one behaviour of SpecVec

LocalVecs == 1 .. NumLocalVecs

\* the variable labels of the vector, as in the tests: &["l1", "l2"]
VariableLabels == <<"l1", "l2">>

\* the label values the callers pass: two tuples that fit the schema, with
\* the same values in different positions, and one that is too short
TupleInputs == {<<"v1", "v2">>, <<"v2", "v1">>, <<"v1">>}

\* the buckets of a HistogramVec and the values observed through it
VecBuckets == <<1>>

VecValues == {1, 2}

StrCode(str) == CASE str = "v1" -> 1 [] str = "v2" -> 2 [] OTHER -> 3

RECURSIVE HashFrom(_, _)
\* the hasher fed with the label values in order
HashFrom(h, vals) ==
  IF vals = <<>> THEN h ELSE HashFrom(h * 4 + StrCode(Head(vals)), Tail(vals))

\* the slip of hashing whatever number of values is passed
hash_label_values_any(vals) ==
  [ok |-> TRUE, hash |-> HashFrom(0, vals)]

\* MetricVecCore::hash_label_values: the cardinality check, then the hash
hash_label_values(vals) ==
  IF Len(vals) # Len(VariableLabels)
    THEN [ok |-> FALSE, err |-> "InconsistentCardinality"]
    ELSE [ok |-> TRUE, hash |-> HashFrom(0, vals)]

\* the Result<()> of a call, from its outcome d
ResultOf(d) == IF d.res = "ok" THEN [res |-> "ok"] ELSE [res |-> "err", err |-> d.err]

\* Value::new on a descriptor with the given variable labels: the
\* cardinality check, then the value
ValueNewResult(variable_labels, val, label_values) ==
  IF Len(variable_labels) # Len(label_values)
    THEN [res |-> "err", err |-> "InconsistentCardinality"]
    ELSE [res |-> "ok", value |-> ValueNew(val)]

\* GenericCounter::with_opts_and_label_values on opts that carry the
\* variable labels: a counter of its own, outside the vector
CounterWithOptsAndLabelValues(vals) ==
  LET v == ValueNewResult(VariableLabels, from_i64(0), vals)
  IN /\ vtype = "counter"
     /\ ret' = IF v.res = "ok" THEN [res |-> "ok", get |-> v.value.val] ELSE ResultOf(v)
     /\ UNCHANGED <<vtype, children, heap, handle, lvec>>

\* CounterVecBuilder::build: GenericCounter::with_opts_and_label_values
CounterVecBuilderBuild(vals) ==
  [metric |-> ValueNew(from_i64(0)), label_values |-> vals]

\* HistogramVecBuilder::build: Histogram::with_opts_and_label_values
HistogramVecBuilderBuild(vals) ==
  [metric |-> HistogramCoreNew(VecBuckets), label_values |-> vals]

\* MetricVecBuilder::build of the builder the vector was created with
Build(vals) ==
  IF vtype = "counter" THEN CounterVecBuilderBuild(vals) ELSE HistogramVecBuilderBuild(vals)

\* a map without the key k
Without(f, k) == [x \in DOMAIN f \ {k} |-> f[x]]

\* the slip of building a child although the map holds one
VecResolved_dup(ch, hp, vals) ==
  LET r == hash_label_values(vals)
  IN IF ~r.ok
       THEN [res |-> "err", err |-> r.err, children |-> ch, heap |-> hp, id |-> 0]
       ELSE [res |-> "ok",
             children |-> (r.hash :> Len(hp) + 1) @@ ch,
             heap |-> Append(hp, Build(vals)),
             id |-> Len(hp) + 1]

\* MetricVecCore::get_metric_with_label_values on the map ch and the heap hp:
\* the child in the map, or a child built and inserted under the write lock
VecResolved(ch, hp, vals) ==
  LET r == hash_label_values(vals)
  IN IF ~r.ok
       THEN [res |-> "err", err |-> r.err, children |-> ch, heap |-> hp, id |-> 0]
       ELSE IF r.hash \in DOMAIN ch
         THEN [res |-> "ok", children |-> ch, heap |-> hp, id |-> ch[r.hash]]
         ELSE [res |-> "ok",
               children |-> (r.hash :> Len(hp) + 1) @@ ch,
               heap |-> Append(hp, Build(vals)),
               id |-> Len(hp) + 1]

\* MetricVecCore::delete_label_values on the map ch
VecDeleted(ch, vals) ==
  LET r == hash_label_values(vals)
  IN IF ~r.ok
       THEN [res |-> "err", err |-> r.err, children |-> ch]
       ELSE IF r.hash \notin DOMAIN ch
         THEN [res |-> "err", err |-> "NotFound", children |-> ch]
         ELSE [res |-> "ok", err |-> "", children |-> Without(ch, r.hash)]

\* MetricVec::with_label_values, called by thread t, which keeps the child
VecWithLabelValues(t, vals) ==
  LET r == VecResolved(children, heap, vals)
  IN /\ children' = r.children
     /\ heap' = r.heap
     /\ IF r.res = "ok"
          THEN /\ handle' = [handle EXCEPT ![t] = [id |-> r.id, vals |-> vals]]
               /\ ret' = [res |-> "ok", id |-> r.id, get |-> r.heap[r.id].metric]
          ELSE /\ handle' = handle
               /\ ret' = ResultOf(r)
     /\ UNCHANGED <<vtype, lvec>>

\* the label maps the callers pass to with(): the pairs of name and value in
\* the order the caller lists them; the first two list the same map
MapInputs ==
  { << <<"l1", "v1">>, <<"l2", "v2">> >>,
    << <<"l2", "v2">>, <<"l1", "v1">> >>,
    << <<"l2", "v1">>, <<"l1", "v2">> >> }

\* HashMap::get on the map built from the pairs: a later insert replaces
MapGet(pairs, name) ==
  LET I == {i \in DOMAIN pairs : pairs[i][1] = name}
  IN IF I = {} THEN [ok |-> FALSE]
     ELSE [ok |-> TRUE, val |-> pairs[CHOOSE i \in I : \A j \in I : j <= i][2]]

\* HashMap::len on the map built from the pairs
MapLen(pairs) == Cardinality({pairs[i][1] : i \in DOMAIN pairs})

\* the slip of taking the values in the order the caller lists them
get_label_values_listed(pairs) ==
  [ok |-> TRUE, vals |-> [i \in DOMAIN pairs |-> pairs[i][2]]]

\* MetricVecCore::get_label_values: the cardinality check, then the value of
\* every variable label, in the order of the schema
get_label_values(pairs) ==
  IF MapLen(pairs) # Len(VariableLabels)
    THEN [ok |-> FALSE, err |-> "InconsistentCardinality"]
    ELSE IF \E i \in DOMAIN VariableLabels : ~MapGet(pairs, VariableLabels[i]).ok
      THEN [ok |-> FALSE, err |-> "MissingLabel"]
      ELSE [ok |-> TRUE,
            vals |-> [i \in DOMAIN VariableLabels |-> MapGet(pairs, VariableLabels[i]).val]]

\* MetricVec::with, called by thread t, which keeps the child: the positions
\* are resolved by the schema, then as with_label_values
VecWith(t, pairs) ==
  LET g == get_label_values(pairs)
  IN IF g.ok
       THEN VecWithLabelValues(t, g.vals)
       ELSE /\ ret' = [res |-> "err", err |-> g.err]
            /\ UNCHANGED <<vtype, children, heap, handle, lvec>>

\* MetricVec::remove_label_values
VecRemoveLabelValues(vals) ==
  LET d == VecDeleted(children, vals)
  IN /\ children' = d.children
     /\ ret' = ResultOf(d)
     /\ UNCHANGED <<vtype, heap, handle, lvec>>

\* MetricVec::collect: the metrics of the children the map holds, by hash
VecCollect(ch, hp) == [h \in DOMAIN ch |-> hp[ch[h]]]

\* the slip of a handle that looks its child up again at every use
HandleIncBy_lookup(t, v) ==
  LET r == hash_label_values(handle[t].vals)
      id == IF r.hash \in DOMAIN children THEN children[r.hash] ELSE handle[t].id
  IN /\ vtype = "counter"
     /\ handle[t].id # 0
     /\ v >= from_i64(0)
     /\ heap' = [heap EXCEPT ![id].metric = ValueAfterIncBy(@, v)]
     /\ ret' = [res |-> "ok"]
     /\ UNCHANGED <<vtype, children, handle, lvec>>

\* the slip of one value shared by the children of the vector
HandleIncBy_all(t, v) ==
  /\ vtype = "counter"
  /\ handle[t].id # 0
  /\ v >= from_i64(0)
  /\ heap' = [i \in DOMAIN heap |-> [heap[i] EXCEPT !.metric = ValueAfterIncBy(@, v)]]
  /\ ret' = [res |-> "ok"]
  /\ UNCHANGED <<vtype, children, handle, lvec>>

\* GenericCounter::inc_by through the handle of thread t
HandleIncBy(t, v) ==
  /\ vtype = "counter"
  /\ handle[t].id # 0
  /\ v >= from_i64(0)
  /\ heap' = [heap EXCEPT ![handle[t].id].metric = ValueAfterIncBy(@, v)]
  /\ ret' = [res |-> "ok"]
  /\ UNCHANGED <<vtype, children, handle, lvec>>

\* Histogram::observe through the handle of thread t
HandleObserve(t, v) ==
  /\ vtype = "histogram"
  /\ handle[t].id # 0
  /\ heap' = [heap EXCEPT ![handle[t].id].metric = CoreObserve(@, v)]
  /\ ret' = [res |-> "ok"]
  /\ UNCHANGED <<vtype, children, handle, lvec>>

(***************************************************************************)
(* GenericLocalCounterVec and LocalHistogramVec.  An accumulator is a      *)
(* local buffer together with the child handle it owns.                    *)
(***************************************************************************)
\* GenericCounterVec::local, HistogramVec::local
VecLocal(n) ==
  /\ lvec[n].state = "none"
  /\ lvec' = [lvec EXCEPT ![n] = [state |-> "live", local |-> <<>>]]
  /\ ret' = [res |-> "ok"]
  /\ UNCHANGED <<vtype, children, heap, handle>>

\* vec.with_label_values(vals).local() on the child id of the heap hp
AccNew(hp, id) ==
  [child |-> id,
   buf |-> IF vtype = "counter" THEN LocalCounterNew
                                ELSE LocalHistogramCoreNew(hp[id].metric)]

\* with_label_values of local vector n: the entry of the hash, inserted with
\* a new accumulator over the vector's child when the local map has none
LocalVecResolved(n, vals) ==
  LET r == hash_label_values(vals)
      loc == lvec[n].local
  IN IF ~r.ok
       THEN [res |-> "panic", children |-> children, heap |-> heap, local |-> loc, hash |-> 0]
       ELSE IF r.hash \in DOMAIN loc
         THEN [res |-> "ok", children |-> children, heap |-> heap, local |-> loc,
               hash |-> r.hash]
         ELSE LET c == VecResolved(children, heap, vals)
              IN [res |-> "ok", children |-> c.children, heap |-> c.heap,
                  local |-> (r.hash :> AccNew(c.heap, c.id)) @@ loc,
                  hash |-> r.hash]

\* the delta an accumulator holds, as its get() or its fields show it
AccDelta(acc) == IF vtype = "counter" THEN acc.buf.val ELSE acc.buf

\* local_vec.with_label_values(vals), then get() on the accumulator
LocalVecWithLabelValues(n, vals) ==
  LET r == LocalVecResolved(n, vals)
  IN /\ lvec[n].state = "live"
     /\ children' = r.children
     /\ heap' = r.heap
     /\ lvec' = [lvec EXCEPT ![n].local = r.local]
     /\ ret' = IF r.res = "ok"
                 THEN [res |-> "ok", id |-> r.local[r.hash].child,
                       get |-> AccDelta(r.local[r.hash])]
                 ELSE [res |-> "panic"]
     /\ UNCHANGED <<vtype, handle>>

\* local_vec.with_label_values(vals).inc_by(v)
LocalVecIncBy(n, vals, v) ==
  LET r == LocalVecResolved(n, vals)
  IN /\ vtype = "counter"
     /\ lvec[n].state = "live"
     /\ r.res = "ok"
     /\ v >= from_i64(0)
     /\ children' = r.children
     /\ heap' = r.heap
     /\ lvec' = [lvec EXCEPT ![n].local = [r.local EXCEPT ![r.hash].buf.val = @ + v]]
     /\ ret' = [res |-> "ok"]
     /\ UNCHANGED <<vtype, handle>>

\* local_vec.with_label_values(vals).observe(v)
LocalVecObserve(n, vals, v) ==
  LET r == LocalVecResolved(n, vals)
  IN /\ vtype = "histogram"
     /\ lvec[n].state = "live"
     /\ r.res = "ok"
     /\ children' = r.children
     /\ heap' = r.heap
     /\ lvec' = [lvec EXCEPT ![n].local =
                   [r.local EXCEPT ![r.hash].buf =
                      LocalCoreObserve(@, r.heap[r.local[r.hash].child].metric, v)]]
     /\ ret' = [res |-> "ok"]
     /\ UNCHANGED <<vtype, handle>>

\* flush() of one accumulator: the heap and the accumulator after it
AccFlushed(hp, acc) ==
  LET f == IF vtype = "counter" THEN LocalCounterFlushed(hp[acc.child].metric, acc.buf)
                                ELSE LocalCoreFlushed(hp[acc.child].metric, acc.buf)
  IN [heap |-> [hp EXCEPT ![acc.child].metric = f.shared],
      acc |-> [acc EXCEPT !.buf = f.local]]

\* an accumulator is dropped: a LocalHistogram flushes (Drop for
\* LocalHistogram), a GenericLocalCounter has no Drop and flushes nothing
AccDropped(hp, acc) ==
  IF vtype = "counter"
    THEN hp
    ELSE [hp EXCEPT ![acc.child].metric = LocalCoreFlushed(@, acc.buf).shared]

RECURSIVE LocalVecFlushed(_, _, _)
\* for h in self.local.values_mut() { h.flush() }, hashes todo still to visit
LocalVecFlushed(hp, loc, todo) ==
  IF todo = {}
    THEN [heap |-> hp, local |-> loc]
    ELSE LET h == CHOOSE x \in todo : TRUE
             f == AccFlushed(hp, loc[h])
         IN LocalVecFlushed(f.heap, [loc EXCEPT ![h] = f.acc], todo \ {h})

RECURSIVE LocalVecDropped(_, _, _)
\* the local map is dropped, and with it every accumulator
LocalVecDropped(hp, loc, todo) ==
  IF todo = {}
    THEN hp
    ELSE LET h == CHOOSE x \in todo : TRUE
         IN LocalVecDropped(AccDropped(hp, loc[h]), loc, todo \ {h})

\* the slip of reporting success whatever delete_label_values returned
LocalVecRemoveLabelValues_ok(n, vals) ==
  LET r == hash_label_values(vals)
      loc == lvec[n].local
  IN /\ lvec[n].state = "live"
     /\ IF ~r.ok
          THEN /\ ret' = [res |-> "err", err |-> r.err]
               /\ UNCHANGED <<children, heap, lvec>>
          ELSE /\ lvec' = [lvec EXCEPT ![n].local = Without(loc, r.hash)]
               /\ heap' = IF r.hash \in DOMAIN loc THEN AccDropped(heap, loc[r.hash])
                                                   ELSE heap
               /\ children' = VecDeleted(children, vals).children
               /\ ret' = [res |-> "ok"]
     /\ UNCHANGED <<vtype, handle>>

\* remove_label_values of local vector n: the hash or the error, the
\* accumulator removed from the local map and dropped, delete_label_values
LocalVecRemoveLabelValues(n, vals) ==
  LET r == hash_label_values(vals)
      loc == lvec[n].local
  IN /\ lvec[n].state = "live"
     /\ IF ~r.ok
          THEN /\ ret' = [res |-> "err", err |-> r.err]
               /\ UNCHANGED <<children, heap, lvec>>
          ELSE /\ lvec' = [lvec EXCEPT ![n].local = Without(loc, r.hash)]
               /\ heap' = IF r.hash \in DOMAIN loc THEN AccDropped(heap, loc[r.hash])
                                                   ELSE heap
               /\ children' = VecDeleted(children, vals).children
               /\ ret' = ResultOf(VecDeleted(children, vals))
     /\ UNCHANGED <<vtype, handle>>

\* flush() of local vector n
LocalVecFlush(n) ==
  LET f == LocalVecFlushed(heap, lvec[n].local, DOMAIN lvec[n].local)
  IN /\ lvec[n].state = "live"
     /\ heap' = f.heap
     /\ lvec' = [lvec EXCEPT ![n].local = f.local]
     /\ ret' = [res |-> "ok"]
     /\ UNCHANGED <<vtype, children, handle>>

\* local vector n goes out of scope
LocalVecDrop(n) ==
  /\ lvec[n].state = "live"
  /\ heap' = LocalVecDropped(heap, lvec[n].local, DOMAIN lvec[n].local)
  /\ lvec' = [lvec EXCEPT ![n] = [state |-> "dropped"]]
  /\ ret' = [res |-> "ok"]
  /\ UNCHANGED <<vtype, children, handle>>

(***************************************************************************)
(* SpecVec: one fresh CounterVec or HistogramVec, the threads that hold    *)
(* handles to its children and the local vectors over it; every call is    *)
(* one step, as the lock of the child map makes it.                        *)
(***************************************************************************)
InitVec ==
  /\ IdleCall
  /\ IdleCounter
  /\ IdleLocal
  /\ vtype \in {"counter", "histogram"}
  /\ children = <<>>
  /\ heap = <<>>
  /\ handle = [t \in Threads |-> [id |-> 0, vals |-> <<>>]]
  /\ lvec = [n \in LocalVecs |-> [state |-> "none"]]
  /\ ret = [res |-> "none"]
  /\ stale = [t \in Threads |-> FALSE]
  /\ removed = {}
  /\ applied = <<>>
  /\ last = [op |-> "init", who |-> 0, v |-> 0, vals |-> <<>>]
  /\ nops = 0

\* history: what the operation adds for the tuple vals, through a local
\* vector or through a handle to the child the vector holds for vals; a
\* removal of vals that succeeds starts the tuple anew
AppliedAfter(op, who, v, vals) ==
  LET r == hash_label_values(vals)
      Add(n) == IF n = 0 THEN applied
                ELSE IF r.hash \in DOMAIN applied THEN [applied EXCEPT ![r.hash] = @ + n]
                ELSE (r.hash :> n) @@ applied
  IN CASE op = "local_inc_by" /\ r.ok -> Add(v)
       [] op = "local_observe" /\ r.ok -> Add(1)
       [] op \in {"inc_by", "observe"} /\ r.ok /\ r.hash \in DOMAIN children
            /\ children[r.hash] = handle[who].id -> Add(IF op = "inc_by" THEN v ELSE 1)
       [] op \in {"remove_label_values", "local_remove_label_values"} /\ r.ok
            /\ r.hash \in DOMAIN children /\ r.hash \in DOMAIN applied ->
              Without(applied, r.hash)
       [] OTHER -> applied

\* one more operation of at most max on the vector, recorded in the history
DidVecWithin(max, op, who, v, vals) ==
  /\ nops < max
  /\ nops' = nops + 1
  /\ last' = [op |-> op, who |-> who, v |-> v, vals |-> vals]
  /\ applied' = AppliedAfter(op, who, v, vals)
  /\ UNCHANGED <<counterVars, localVars, callVars>>

\* one more operation on the vector, recorded in the history
DidVec(op, who, v, vals) == DidVecWithin(MaxVecOps, op, who, v, vals)

\* history of a with_label_values(vals) that returned: the hash is resolved
Resolves(vals) ==
  removed' = IF hash_label_values(vals).ok /\ ret'.res = "ok"
               THEN removed \ {hash_label_values(vals).hash}
               ELSE removed

\* history of a remove_label_values(vals): when it succeeded, the handles to
\* the child it removed are stale
Removes(vals) ==
  IF ret'.res = "ok"
    THEN /\ removed' = removed \cup {hash_label_values(vals).hash}
         /\ stale' = [t \in Threads |->
                        \/ stale[t]
                        \/ \E h \in DOMAIN children \ DOMAIN children' :
                             handle[t].id = children[h]]
    ELSE UNCHANGED <<removed, stale>>

DoVecWithLabelValues ==
  \E t \in Threads, vals \in TupleInputs :
    /\ DidVec("with_label_values", t, 0, vals)
    /\ VecWithLabelValues(t, vals)
    /\ Resolves(vals)
    /\ stale' = IF ret'.res = "ok" THEN [stale EXCEPT ![t] = FALSE] ELSE stale

DoVecWith ==
  \E t \in Threads, pairs \in MapInputs :
    /\ DidVec("with", t, 0, pairs)
    /\ VecWith(t, pairs)
    /\ removed' = IF ret'.res = "ok"
                    THEN removed \ {hash_label_values(handle'[t].vals).hash}
                    ELSE removed
    /\ stale' = IF ret'.res = "ok" THEN [stale EXCEPT ![t] = FALSE] ELSE stale

DoVecRemoveLabelValues ==
  \E vals \in TupleInputs :
    /\ DidVec("remove_label_values", 0, 0, vals)
    /\ VecRemoveLabelValues(vals)
    /\ Removes(vals)

DoCounterWithOptsAndLabelValues ==
  \E vals \in TupleInputs :
    /\ DidVec("counter_with_opts", 0, 0, vals)
    /\ CounterWithOptsAndLabelValues(vals)
    /\ UNCHANGED <<removed, stale>>

DoHandleIncBy ==
  \E t \in Threads, d \in 0 .. MaxDelta :
    /\ DidVec("inc_by", t, d, handle[t].vals)
    /\ HandleIncBy(t, d)
    /\ UNCHANGED <<removed, stale>>

DoHandleObserve ==
  \E t \in Threads, v \in VecValues :
    /\ DidVec("observe", t, v, handle[t].vals)
    /\ HandleObserve(t, v)
    /\ UNCHANGED <<removed, stale>>

DoVecLocal ==
  \E n \in LocalVecs :
    /\ DidVec("local", n, 0, <<>>)
    /\ VecLocal(n)
    /\ UNCHANGED <<removed, stale>>

DoLocalVecWithLabelValues ==
  \E n \in LocalVecs, vals \in TupleInputs :
    /\ DidVec("local_with_label_values", n, 0, vals)
    /\ LocalVecWithLabelValues(n, vals)
    /\ Resolves(vals)
    /\ UNCHANGED stale

DoLocalVecIncBy ==
  \E n \in LocalVecs, vals \in TupleInputs, d \in 0 .. MaxDelta :
    /\ DidVec("local_inc_by", n, d, vals)
    /\ LocalVecIncBy(n, vals, d)
    /\ Resolves(vals)
    /\ UNCHANGED stale

DoLocalVecObserve ==
  \E n \in LocalVecs, vals \in TupleInputs, v \in VecValues :
    /\ DidVec("local_observe", n, v, vals)
    /\ LocalVecObserve(n, vals, v)
    /\ Resolves(vals)
    /\ UNCHANGED stale

DoLocalVecRemoveLabelValues ==
  \E n \in LocalVecs, vals \in TupleInputs :
    /\ DidVec("local_remove_label_values", n, 0, vals)
    /\ LocalVecRemoveLabelValues(n, vals)
    /\ Removes(vals)

DoLocalVecFlush ==
  \E n \in LocalVecs :
    /\ DidVec("local_flush", n, 0, <<>>)
    /\ LocalVecFlush(n)
    /\ UNCHANGED <<removed, stale>>

DoLocalVecDrop ==
  \E n \in LocalVecs :
    /\ DidVec("local_drop", n, 0, <<>>)
    /\ LocalVecDrop(n)
    /\ UNCHANGED <<removed, stale>>

NextVec ==
  \/ DoVecWithLabelValues
  \/ DoVecWith
  \/ DoVecRemoveLabelValues
  \/ DoCounterWithOptsAndLabelValues
  \/ DoHandleIncBy
  \/ DoHandleObserve
  \/ DoVecLocal
  \/ DoLocalVecWithLabelValues
  \/ DoLocalVecIncBy
  \/ DoLocalVecObserve
  \/ DoLocalVecRemoveLabelValues
  \/ DoLocalVecFlush
  \/ DoLocalVecDrop

SpecVec == InitVec /\ [][NextVec]_vars

(***************************************************************************)
(* Properties of the metric vector.                                        *)
(***************************************************************************)
\* the metric of a child that nothing was added to
ZeroMetric ==
  IF vtype = "counter" THEN [type |-> "counter", val |-> 0]
  ELSE [type |-> "histogram", sum |-> 0, count |-> 0,
        upper_bounds |-> VecBuckets, counts |-> [i \in DOMAIN VecBuckets |-> 0]]

\* the delta of an accumulator that nothing was added to
ZeroLocal ==
  IF vtype = "counter" THEN 0
  ELSE [state |-> "live", counts |-> [i \in DOMAIN VecBuckets |-> 0], count |-> 0, sum |-> 0]

\* C2: the handles that with_label_values returned for the same label
\* values, with no removal of these values since, are handles to one child,
\* the one the vector holds for these values: what is added through one
\* handle is read through the other.
C2_SameTupleSameChild ==
  /\ \A t \in DOMAIN handle :
       (handle[t].id # 0 /\ ~stale[t]) =>
          LET r == hash_label_values(handle[t].vals)
          IN r.ok /\ r.hash \in DOMAIN children /\ children[r.hash] = handle[t].id
  /\ \A t1 \in DOMAIN handle, t2 \in DOMAIN handle :
       ( /\ handle[t1].id # 0 /\ ~stale[t1]
         /\ handle[t2].id # 0 /\ ~stale[t2]
         /\ handle[t1].vals = handle[t2].vals ) =>
            /\ handle[t1].id = handle[t2].id
            /\ heap[handle[t1].id].metric = heap[handle[t2].id].metric

\* two threads hold the child of one tuple, a child of the other tuple was
\* created in between, and the second thread has just incremented
C2_Witness ==
  /\ vtype = "counter"
  /\ handle[1].id # 0 /\ ~stale[1]
  /\ handle[2].id # 0 /\ ~stale[2]
  /\ handle[1].vals = handle[2].vals
  /\ Cardinality(DOMAIN children) = 2
  /\ last.op = "inc_by" /\ last.who = 2 /\ last.v > 0
  /\ heap[handle[1].id].metric.val = last.v

\* C9: after a successful remove_label_values(t), the next
\* with_label_values(t), on the vector or on a local vector over it, yields
\* a child whose value is zero, and on a local vector an accumulator whose
\* get() is zero.
C9_FreshChildAfterRemove ==
  [][ ( /\ last'.op \in {"with_label_values", "local_with_label_values"}
        /\ hash_label_values(last'.vals).ok
        /\ hash_label_values(last'.vals).hash \in removed ) =>
          /\ ret'.res = "ok"
          /\ heap'[ret'.id].metric = ZeroMetric
          /\ last'.op = "local_with_label_values" =>
               ret'.get = ZeroLocal
    ]_vars

\* C10: remove_label_values(t) returns an error exactly when the vector
\* holds no child for t, and then leaves the child map and the value of
\* every child in it unchanged; when the vector holds a child for t it
\* succeeds and the vector holds no child for t afterwards, so that a second
\* removal fails.
C10_RemoveReportsMissing ==
  [][ last'.op \in {"remove_label_values", "local_remove_label_values"} =>
        LET r == hash_label_values(last'.vals)
            held == r.ok /\ r.hash \in DOMAIN children
        IN IF held
             THEN /\ ret'.res = "ok"
                  /\ children' = Without(children, r.hash)
             ELSE /\ ret'.res = "err"
                  /\ children' = children
                  /\ \A h \in DOMAIN children : heap'[children[h]] = heap[children[h]]
    ]_vars

\* the second removal of a tuple has just failed; the vector still holds
\* the child of the other tuple
C10_Witness ==
  /\ last.op \in {"remove_label_values", "local_remove_label_values"}
  /\ ret.res = "err"
  /\ hash_label_values(last.vals).ok
  /\ hash_label_values(last.vals).hash \in removed
  /\ Cardinality(DOMAIN children) = 1

\* C11: with_label_values and remove_label_values on the vector,
\* remove_label_values on a local vector and the construction of a counter
\* value, called with a number of label values that differs from the number
\* of variable labels, return the InconsistentCardinality error; the child
\* map, every child and every local vector are left as they were.
C11_CardinalityError ==
  [][ ( /\ last'.op \in {"with_label_values", "remove_label_values",
                         "local_remove_label_values", "counter_with_opts"}
        /\ Len(last'.vals) # Len(VariableLabels) ) =>
          /\ ret'.res = "err"
          /\ ret'.err = "InconsistentCardinality"
          /\ children' = children
          /\ heap' = heap
          /\ lvec' = lvec
          /\ handle' = handle
    ]_vars

\* a call with one value for two labels has just failed, on a vector that
\* holds a child with a non-zero value
C11_Witness ==
  /\ last.op \in {"with_label_values", "remove_label_values", "counter_with_opts"}
  /\ Len(last.vals) = 1
  /\ ret.res = "err"
  /\ \E h \in DOMAIN children : heap[children[h]].metric # ZeroMetric

\* C12: a flush() of a local buffer whose delta is zero, such as the second
\* of two flushes with nothing in between, changes neither the shared metric
\* nor the local delta, and writes to no cell of the shared metric.
C12_FlushIdempotent ==
  [][ ( /\ last'.op = "local_flush"
        /\ \/ ZeroDelta(local[last'.who])
           \/ last.op = "local_flush" /\ last.who = last'.who ) =>
          /\ metric' = metric
          /\ local' = local
          /\ ~wrote'
    ]_vars

\* inc(); flush(); flush(): the second flush has just returned
C12_Witness ==
  /\ nops = 4
  /\ last.op = "local_flush"
  /\ ~wrote
  /\ metric.type = "counter"
  /\ metric.val = 1
  /\ local[last.who].val = 0
  /\ \A b \in Bufs : b # last.who => local[b].state = "none"

\* C13: clear() on a local histogram sets its bucket counts, count and sum
\* to zero and leaves the shared histogram and the other buffers as they
\* were; the next flush() or drop of the buffer adds to the shared histogram
\* the observations buffered since the clear (pending), and no other.
C13_ClearDiscards ==
  [][ /\ last'.op = "local_clear" =>
           /\ metric' = metric
           /\ ~wrote'
           /\ local'[last'.who].state = "live"
           /\ ZeroDelta(local'[last'.who])
           /\ \A c \in Bufs \ {last'.who} : local'[c] = local[c]
      /\ (last'.op \in {"local_flush", "local_drop"} /\ metric.type = "histogram") =>
           LET P == pending[last'.who]
           IN /\ metric'.count = metric.count + BagSize(P)
              /\ metric'.sum = metric.sum + BagSum(P)
              /\ \A i \in DOMAIN metric.upper_bounds :
                   RunningCount(metric'.counts, i) =
                     RunningCount(metric.counts, i) + BagCountLeq(P, metric.upper_bounds[i])
    ]_vars

\* a clear has just discarded two buffered observations; the shared
\* histogram shows none
C13_Witness ==
  /\ last.op = "local_clear"
  /\ last.v = 2
  /\ local[last.who].count = 0
  /\ local[last.who].sum = 0
  /\ metric.count = 0

\* C14: a handle to a child that remove_label_values has removed still
\* accepts inc_by and observe; the mutation lands on the removed child only:
\* the child map, every child the map holds and what collect() exports are
\* unchanged, and no later with_label_values on the vector returns the
\* removed child.
C14_OrphanedChild ==
  [][ /\ (last'.op \in {"inc_by", "observe"} /\ stale[last'.who]) =>
           LET id == handle[last'.who].id
           IN /\ ret'.res = "ok"
              /\ heap'[id].metric =
                   (IF vtype = "counter" THEN ValueAfterIncBy(heap[id].metric, last'.v)
                                         ELSE CoreObserve(heap[id].metric, last'.v))
              /\ children' = children
              /\ \A h \in DOMAIN children : children[h] # id
              /\ VecCollect(children', heap') = VecCollect(children, heap)
      /\ (last'.op = "with_label_values" /\ ret'.res = "ok") =>
           \A t \in Threads : stale[t] => ret'.id # handle[t].id
    ]_vars

\* the child of a tuple was removed and created again; an increment through
\* the handle to the removed child has just returned, the new child shows 0
C14_Witness ==
  /\ last.op = "inc_by"
  /\ last.v > 0
  /\ stale[last.who]
  /\ heap[handle[last.who].id].metric.val = last.v
  /\ LET r == hash_label_values(handle[last.who].vals)
     IN /\ r.hash \in DOMAIN children
        /\ heap[children[r.hash]].metric.val = 0

\* the value the label map listed as pairs gives to the variable label name
ValueListedFor(pairs, name) ==
  CHOOSE v \in {pairs[i][2] : i \in DOMAIN pairs} :
    \E i \in DOMAIN pairs : pairs[i] = <<name, v>>

\* C15: with(label_map) resolves to the child that with_label_values
\* resolves to for the values of the map arranged in the order of the
\* vector's variable labels, in whatever order the map lists the names.
C15_WithResolvesBySchema ==
  [][ last'.op = "with" =>
        LET vals == [i \in DOMAIN VariableLabels |->
                       ValueListedFor(last'.vals, VariableLabels[i])]
            r == VecResolved(children, heap, vals)
        IN /\ ret'.res = "ok"
           /\ ret'.id = r.id
           /\ children' = r.children
           /\ heap' = r.heap
           /\ handle'[last'.who] = [id |-> r.id, vals |-> vals]
    ]_vars

\* with() on a map that lists l2 before l1 has just returned the child that
\* another thread got from with_label_values and incremented
C15_Witness ==
  /\ last.op = "with"
  /\ last.vals = << <<"l2", "v2">>, <<"l1", "v1">> >>
  /\ ret.res = "ok"
  /\ \E t \in Threads \ {last.who} :
       /\ handle[t] = [id |-> ret.id, vals |-> <<"v1", "v2">>]
       /\ ~stale[t]
  /\ vtype = "counter"
  /\ ret.get.val > 0

\* C16 as stated: inc_by(v) with v < 0 on a counter or on a local counter
\* fails an assertion before any mutation: the call does not return, and
\* the shared value and the local deltas are unchanged.
C16_NegativeIncAsserts ==
  [][ (last'.op \in {"inc_by", "local_inc_by"} /\ last'.v < 0) =>
        /\ panicked'
        /\ metric' = metric
        /\ local' = local
    ]_vars

\* C16 amended: in a build with debug assertions inc_by(v) with v < 0 fails
\* the assertion before any mutation and nothing changes; in a build without
\* them the call returns and adds v, to the shared value or to the delta of
\* the local counter it was called on.
C16_NegativeIncAssertsInDebug ==
  [][ (last'.op \in {"inc_by", "local_inc_by"} /\ last'.v < 0) =>
        IF debug_assertions
          THEN /\ panicked'
               /\ ~wrote'
               /\ metric' = metric
               /\ local' = local
          ELSE /\ ~panicked'
               /\ IF last'.op = "inc_by"
                    THEN /\ metric'.val = metric.val + last'.v
                         /\ local' = local
                    ELSE /\ metric' = metric
                         /\ local' = [local EXCEPT ![last'.who].val = @ + last'.v]
    ]_vars

\* a local counter that holds 1 has just refused inc_by(-1)
C16_Witness ==
  /\ debug_assertions
  /\ panicked
  /\ last.op = "local_inc_by"
  /\ last.v < 0
  /\ local[last.who].val = 1
  /\ metric.val = 0

\* the deltas of the live local counters are not negative
LocalDeltasNonNegative(l) ==
  \A b \in DOMAIN l : l[b].state = "live" => l[b].val >= 0

\* C17: a counter only goes up: while every inc_by, on the counter and on
\* its local counters, is called with d >= 0, no local delta is negative and
\* no step (inc, inc_by, the flush or the end of a local counter) lowers
\* what get() returns.
C17_CounterOnlyGoesUp ==
  [][ ( /\ metric.type = "counter"
        /\ LocalDeltasNonNegative(local)
        /\ last'.op \in {"inc_by", "local_inc_by"} => last'.v >= 0 ) =>
          /\ metric'.val >= metric.val
          /\ LocalDeltasNonNegative(local')
    ]_vars

\* a flush has just raised a counter that had been incremented directly
C17_Witness ==
  /\ metric.type = "counter"
  /\ last.op = "local_flush"
  /\ wrote
  /\ nops = 4
  /\ metric.val = 2
  /\ LocalDeltasNonNegative(local)

(***************************************************************************)
(* The helpers of histogram construction (histogram.rs).  Bucket bounds    *)
(* are f64 here: a number, NaN, +Inf or -Inf, compared and added as IEEE   *)
(* 754 does; a finite result beyond F64Max overflows to an infinity.       *)
(***************************************************************************)
MaxBuckets == 3      \* longest bucket list passed to the validation
F64Max     == 4      \* largest finite f64 of the model

F64(n) == [k |-> "num", n |-> n]

NAN == [k |-> "nan", n |-> 0]

INFINITY == [k |-> "inf", n |-> 0]

NEG_INFINITY == [k |-> "ninf", n |-> 0]

\* a >= b on f64: false when either side is NaN
F64Ge(a, b) ==
  /\ a.k # "nan"
  /\ b.k # "nan"
  /\ \/ a.k = "inf"
     \/ b.k = "ninf"
     \/ a.k = "num" /\ b.k = "num" /\ a.n >= b.n

\* a < b on f64: false when either side is NaN
F64Lt(a, b) ==
  /\ a.k # "nan"
  /\ b.k # "nan"
  /\ ~F64Ge(a, b)

\* a <= b on f64: false when either side is NaN
F64Le(a, b) == F64Ge(b, a)

\* the f64 of an exact result n: itself when finite, else an infinity
F64Round(n) ==
  IF n > F64Max THEN INFINITY ELSE IF n < -F64Max THEN NEG_INFINITY ELSE F64(n)

\* the sign of a f64 that is not NaN
F64Sign(a) ==
  CASE a.k = "inf" -> 1
    [] a.k = "ninf" -> -1
    [] OTHER -> IF a.n > 0 THEN 1 ELSE IF a.n < 0 THEN -1 ELSE 0

\* a + b on f64
F64Add(a, b) ==
  IF a.k = "nan" \/ b.k = "nan" THEN NAN
  ELSE IF a.k = "num" /\ b.k = "num" THEN F64Round(a.n + b.n)
  ELSE IF a.k = "num" THEN b
  ELSE IF b.k = "num" \/ b.k = a.k THEN a
  ELSE NAN

\* a * b on f64
F64Mul(a, b) ==
  IF a.k = "nan" \/ b.k = "nan" THEN NAN
  ELSE IF a.k = "num" /\ b.k = "num" THEN F64Round(a.n * b.n)
  ELSE IF F64Sign(a) * F64Sign(b) = 0 THEN NAN
  ELSE IF F64Sign(a) * F64Sign(b) > 0 THEN INFINITY
  ELSE NEG_INFINITY

\* DEFAULT_BUCKETS, in thousandths
DEFAULT_BUCKETS ==
  [i \in 1 .. 11 |-> F64(<<5, 10, 25, 50, 100, 250, 500, 1000, 2500, 5000, 10000>>[i])]

\* the bounds the callers pass, and the lists of them
BucketValues == {F64(n) : n \in 1 .. MaxBound} \cup {NAN, INFINITY}

BucketInputs == UNION {[1 .. n -> BucketValues] : n \in 0 .. MaxBuckets}

\* check_and_adjust_buckets: the default for an empty list, the test of every
\* bound against its successor, the removal of a trailing +Inf
check_and_adjust_buckets(buckets) ==
  LET b == IF buckets = <<>> THEN DEFAULT_BUCKETS ELSE buckets
  IN IF \E i \in 1 .. Len(b) - 1 : F64Ge(b[i], b[i + 1])
       THEN [res |-> "err", err |-> "Msg"]
       ELSE IF b[Len(b)].k = "inf"
         THEN [res |-> "ok", buckets |-> SubSeq(b, 1, Len(b) - 1)]
         ELSE [res |-> "ok", buckets |-> b]

\* the start, width and factor the callers pass to the bucket generators
F64Inputs == {F64(n) : n \in -1 .. F64Max} \cup {NAN, INFINITY, NEG_INFINITY}

RECURSIVE LinearFrom(_, _, _)
\* for _ in 0..count { buckets.push(next); next += width; }
LinearFrom(next, width, count) ==
  IF count = 0 THEN <<>>
  ELSE <<next>> \o LinearFrom(F64Add(next, width), width, count - 1)

\* the slip of refusing a negative width only
linear_buckets_neg(start, width, count) ==
  IF count < 1 THEN [res |-> "err", err |-> "Msg"]
  ELSE IF F64Lt(width, F64(0)) THEN [res |-> "err", err |-> "Msg"]
  ELSE [res |-> "ok", buckets |-> LinearFrom(start, width, count)]

\* linear_buckets
linear_buckets(start, width, count) ==
  IF count < 1 THEN [res |-> "err", err |-> "Msg"]
  ELSE IF F64Le(width, F64(0)) THEN [res |-> "err", err |-> "Msg"]
  ELSE [res |-> "ok", buckets |-> LinearFrom(start, width, count)]

RECURSIVE ExponentialFrom(_, _, _)
\* for _ in 0..count { buckets.push(next); next *= factor; }
ExponentialFrom(next, factor, count) ==
  IF count = 0 THEN <<>>
  ELSE <<next>> \o ExponentialFrom(F64Mul(next, factor), factor, count - 1)

\* exponential_buckets
exponential_buckets(start, factor, count) ==
  IF count < 1 THEN [res |-> "err", err |-> "Msg"]
  ELSE IF F64Le(start, F64(0)) THEN [res |-> "err", err |-> "Msg"]
  ELSE IF F64Le(factor, F64(1)) THEN [res |-> "err", err |-> "Msg"]
  ELSE [res |-> "ok", buckets |-> ExponentialFrom(start, factor, count)]

(***************************************************************************)
(* SpecBuckets: one call of a helper of histogram construction.            *)
(***************************************************************************)
BucketCalls ==
  {[fn |-> "check_and_adjust_buckets", buckets |-> B] : B \in BucketInputs}
  \cup {[fn |-> f, start |-> s, step |-> w, count |-> c] :
          f \in {"linear_buckets", "exponential_buckets"},
          s \in F64Inputs, w \in F64Inputs, c \in 0 .. MaxBuckets}

InitBuckets ==
  /\ IdleCounter
  /\ IdleLocal
  /\ IdleOps
  /\ IdleVec
  /\ call \in BucketCalls
  /\ result = [res |-> "none"]

CallCheckAndAdjustBuckets ==
  /\ result.res = "none"
  /\ call.fn = "check_and_adjust_buckets"
  /\ result' = check_and_adjust_buckets(call.buckets)
  /\ UNCHANGED <<call, counterVars, localVars, opVars, vecVars>>

CallLinearBuckets ==
  /\ result.res = "none"
  /\ call.fn = "linear_buckets"
  /\ result' = linear_buckets(call.start, call.step, call.count)
  /\ UNCHANGED <<call, counterVars, localVars, opVars, vecVars>>

CallExponentialBuckets ==
  /\ result.res = "none"
  /\ call.fn = "exponential_buckets"
  /\ result' = exponential_buckets(call.start, call.step, call.count)
  /\ UNCHANGED <<call, counterVars, localVars, opVars, vecVars>>

NextBuckets ==
  \/ CallCheckAndAdjustBuckets
  \/ CallLinearBuckets
  \/ CallExponentialBuckets

SpecBuckets == InitBuckets /\ [][NextBuckets]_vars

\* C18: the validation of the bucket list replaces an empty list by the 11
\* default bounds, rejects a list in which some bound is >= its successor,
\* removes a trailing +Inf and keeps every other list as it is; the bounds
\* it returns are strictly increasing and hold no +Inf.
C18_BucketValidation ==
  (result.res # "none" /\ call.fn = "check_and_adjust_buckets") =>
    LET B == call.buckets
        unordered == \E i \in 1 .. Len(B) - 1 : F64Ge(B[i], B[i + 1])
    IN /\ B = <<>> => (result.res = "ok" /\ result.buckets = DEFAULT_BUCKETS)
       /\ Len(DEFAULT_BUCKETS) = 11
       /\ unordered => result.res = "err"
       /\ (B # <<>> /\ ~unordered) =>
            /\ result.res = "ok"
            /\ result.buckets = IF B[Len(B)] = INFINITY THEN SubSeq(B, 1, Len(B) - 1) ELSE B
       /\ result.res = "ok" =>
            /\ \A i \in 1 .. Len(result.buckets) - 1 :
                 F64Lt(result.buckets[i], result.buckets[i + 1])
            /\ \A i \in 1 .. Len(result.buckets) : result.buckets[i] # INFINITY

\* C19: the children of one vector are independent.  inc_by or observe
\* through the handle of the child for a tuple changes the value of that
\* child only (by the amount added, or by one observation), the value of
\* every other child is unchanged, and a child that is created by a lookup
\* reads zero while the lookup changes no other child.
C19_ChildrenIndependent ==
  [][/\ last'.op \in {"inc_by", "observe"} =>
          LET id == handle[last'.who].id
          IN /\ children' = children
             /\ DOMAIN heap' = DOMAIN heap
             /\ \A i \in DOMAIN heap \ {id} : heap'[i] = heap[i]
             /\ heap'[id].label_values = heap[id].label_values
             /\ IF vtype = "counter"
                  THEN heap'[id].metric.val = heap[id].metric.val + last'.v
                  ELSE /\ heap'[id].metric.count = heap[id].metric.count + 1
                       /\ heap'[id].metric.sum = heap[id].metric.sum + last'.v
     /\ (last'.op \in {"with_label_values", "with"} /\ Len(heap') > Len(heap)) =>
          /\ ret'.res = "ok"
          /\ ret'.get = ZeroMetric
          /\ \A i \in DOMAIN heap : heap'[i] = heap[i]
    ]_vars

\* a counter vector with two children: one was just incremented by 2 and
\* reads 2, the other still reads 0
C19_Witness ==
  /\ vtype = "counter"
  /\ last.op = "inc_by"
  /\ last.v = 2
  /\ \E h1, h2 \in DOMAIN children :
       /\ h1 # h2
       /\ children[h1] = handle[last.who].id
       /\ heap[children[h1]].metric.val = 2
       /\ heap[children[h2]].metric.val = 0

\* C20: a local vector keeps one accumulator per label tuple: the first
\* with_label_values(t) creates it over the vector's child for t, a later
\* call for t returns it again and touches no other accumulator.  flush()
\* adds the delta of every accumulator to the child the shared vector holds
\* for the tuple of that accumulator and leaves every local delta at zero.
C20_LocalVecAccumulators ==
  [][/\ ( /\ last'.op \in {"local_with_label_values", "local_inc_by", "local_observe"}
          /\ hash_label_values(last'.vals).ok ) =>
          LET h == hash_label_values(last'.vals).hash
              loc == lvec[last'.who].local
              new == lvec'[last'.who].local
          IN /\ DOMAIN new = DOMAIN loc \cup {h}
             /\ \A x \in DOMAIN loc \ {h} : new[x] = loc[x]
             /\ IF h \in DOMAIN loc
                  THEN /\ new[h].child = loc[h].child
                       /\ last'.op = "local_with_label_values" => new[h] = loc[h]
                  ELSE /\ h \in DOMAIN children'
                       /\ new[h].child = children'[h]
                       /\ last'.op = "local_with_label_values" => AccDelta(new[h]) = ZeroLocal
     /\ last'.op = "local_flush" =>
          LET loc == lvec[last'.who].local
              new == lvec'[last'.who].local
          IN /\ DOMAIN new = DOMAIN loc
             /\ \A h \in DOMAIN loc :
                  /\ AccDelta(new[h]) = ZeroLocal
                  /\ AccDelta(loc[h]) # ZeroLocal =>
                       /\ h \in DOMAIN children
                       /\ children[h] = loc[h].child
                       /\ IF vtype = "counter"
                            THEN heap'[children[h]].metric.val =
                                   heap[children[h]].metric.val + loc[h].buf.val
                            ELSE /\ heap'[children[h]].metric.count =
                                      heap[children[h]].metric.count + loc[h].buf.count
                                 /\ heap'[children[h]].metric.sum =
                                      heap[children[h]].metric.sum + loc[h].buf.sum
    ]_vars

\* the bounds b are strictly increasing
StrictlyIncreasing(b) == \A i \in 1 .. Len(b) - 1 : F64Lt(b[i], b[i + 1])

\* what a bucket generator returned, against its arguments: it fails exactly
\* when refused holds; on success it returns count bounds, the first equal
\* to start and each later one Next of its predecessor
GeneratedAsSpecified(refused, Next(_)) ==
  /\ result.res = "err" <=> refused
  /\ result.res = "ok" =>
       /\ Len(result.buckets) = call.count
       /\ result.buckets[1] = call.start
       /\ \A i \in 1 .. call.count - 1 : result.buckets[i + 1] = Next(result.buckets[i])

\* the same for the generator the call names
GeneratorAsSpecified ==
  IF call.fn = "linear_buckets"
    THEN GeneratedAsSpecified(call.count = 0 \/ F64Le(call.step, F64(0)),
                              LAMBDA x : F64Add(x, call.step))
    ELSE GeneratedAsSpecified(\/ call.count = 0
                              \/ F64Le(call.start, F64(0))
                              \/ F64Le(call.step, F64(1)),
                              LAMBDA x : F64Mul(x, call.step))

\* C22 as stated: linear_buckets fails exactly when count is 0 or width <= 0,
\* exponential_buckets exactly when count is 0, start <= 0 or factor <= 1;
\* on success each returns count bounds, the first equal to start and each
\* later one obtained by adding width (multiplying by factor), and these
\* bounds are strictly increasing and accepted by the bucket validation.
C22_GeneratedBuckets ==
  (result.res # "none" /\ call.fn \in {"linear_buckets", "exponential_buckets"}) =>
    /\ GeneratorAsSpecified
    /\ result.res = "ok" =>
         /\ StrictlyIncreasing(result.buckets)
         /\ check_and_adjust_buckets(result.buckets).res = "ok"

\* C22, amended: the same, with the bounds strictly increasing and accepted
\* by the bucket validation when every bound returned is finite.
C22_GeneratedBucketsFinite ==
  (result.res # "none" /\ call.fn \in {"linear_buckets", "exponential_buckets"}) =>
    /\ GeneratorAsSpecified
    /\ (result.res = "ok" /\ \A i \in DOMAIN result.buckets : result.buckets[i].k = "num") =>
         /\ StrictlyIncreasing(result.buckets)
         /\ check_and_adjust_buckets(result.buckets).res = "ok"
         /\ check_and_adjust_buckets(result.buckets).buckets = result.buckets

\* linear_buckets(-1, 2, 3) returned the three finite bounds -1, 1, 3
C22_Witness ==
  /\ call.fn = "linear_buckets"
  /\ call.count = 3
  /\ result.res = "ok"
  /\ result.buckets = <<F64(-1), F64(1), F64(3)>>

(***************************************************************************)
(* Descriptors and label pairs (value.rs, metrics.rs), and the             *)
(* constructors of the metrics: Value::new and HistogramCore::new.         *)
(***************************************************************************)
\* the label names of the model, in the order of str::cmp
LabelNames == <<"a", "l1", "l2", "le", "z">>

NameIndex(name) == CHOOSE i \in DOMAIN LabelNames : LabelNames[i] = name

\* Ord for LabelPair: by name
LabelPairLt(p, q) == NameIndex(p.name) < NameIndex(q.name)

LabelPairNew(name, value) == [name |-> name, value |-> value]

\* the variable labels and the constant label pairs of the descriptors
VariableLabelInputs == {<<>>, <<"l1">>, <<"l2", "l1">>, <<"le">>, <<"l1", "le">>}

ConstLabelInputs ==
  {<<>>,
   <<LabelPairNew("a", "x")>>,
   <<LabelPairNew("a", "x"), LabelPairNew("z", "y")>>,
   <<LabelPairNew("le", "x")>>}

\* the names of the pairs
PairNames(pairs) == {pairs[i].name : i \in DOMAIN pairs}

\* the descriptors Desc::new returns: the constant label pairs are sorted by
\* name, no name is both a variable and a constant label
DescInputs ==
  {[variable_labels |-> vl, const_label_pairs |-> cl] :
     <<vl, cl>> \in {x \in VariableLabelInputs \X ConstLabelInputs :
                      {x[1][i] : i \in DOMAIN x[1]} \cap PairNames(x[2]) = {}}}

\* the label values the callers pass to a constructor
LabelValueInputs ==
  {<<>>, <<"v1">>, <<"v1", "v2">>, <<"v2", "v1">>, <<"v1", "v2", "v3">>}

\* the bucket lists of the HistogramOpts
OptsBucketInputs ==
  {<<>>, <<F64(1), F64(2)>>, <<F64(2), F64(1)>>, <<F64(1), INFINITY>>, <<INFINITY>>}

RECURSIVE InsertPair(_, _)
\* p put into the sorted pairs, behind the pairs that are not greater
InsertPair(p, sorted) ==
  IF sorted = <<>> THEN <<p>>
  ELSE IF LabelPairLt(p, sorted[Len(sorted)])
    THEN Append(InsertPair(p, SubSeq(sorted, 1, Len(sorted) - 1)), sorted[Len(sorted)])
    ELSE Append(sorted, p)

RECURSIVE SortPairs(_)
\* label_pairs.sort(): a stable sort by Ord for LabelPair
SortPairs(pairs) ==
  IF pairs = <<>> THEN <<>>
  ELSE InsertPair(pairs[Len(pairs)], SortPairs(SubSeq(pairs, 1, Len(pairs) - 1)))

\* the slip of leaving the pairs in the order they were pushed
make_label_pairs_pushed(desc, label_values) ==
  IF Len(desc.variable_labels) + Len(desc.const_label_pairs) = 0
    THEN [res |-> "ok", pairs |-> <<>>]
  ELSE IF desc.variable_labels = <<>>
    THEN [res |-> "ok", pairs |-> desc.const_label_pairs]
  ELSE IF Len(label_values) < Len(desc.variable_labels)
    THEN [res |-> "panic"]
  ELSE [res |-> "ok",
        pairs |-> [i \in DOMAIN desc.variable_labels |->
                     LabelPairNew(desc.variable_labels[i], label_values[i])]
                  \o desc.const_label_pairs]

\* make_label_pairs: one pair per variable label with label_values[i], an
\* index out of bounds when the values are too few, then the constant pairs,
\* then the sort
make_label_pairs(desc, label_values) ==
  IF Len(desc.variable_labels) + Len(desc.const_label_pairs) = 0
    THEN [res |-> "ok", pairs |-> <<>>]
  ELSE IF desc.variable_labels = <<>>
    THEN [res |-> "ok", pairs |-> desc.const_label_pairs]
  ELSE IF Len(label_values) < Len(desc.variable_labels)
    THEN [res |-> "panic"]
  ELSE [res |-> "ok",
        pairs |-> SortPairs([i \in DOMAIN desc.variable_labels |->
                               LabelPairNew(desc.variable_labels[i], label_values[i])]
                            \o desc.const_label_pairs)]

\* Value::new on the descriptor desc: the cardinality check, the label
\* pairs, the value
ValueNewLabelled(desc, val, label_values) ==
  LET v == ValueNewResult(desc.variable_labels, val, label_values)
  IN IF v.res # "ok" THEN v
     ELSE [res |-> "ok", metric |-> v.value,
           label_pairs |-> make_label_pairs(desc, label_values).pairs]

\* check_bucket_lable
check_bucket_lable(label) ==
  IF label = "le" THEN [res |-> "err", err |-> "Msg"] ELSE [res |-> "ok"]

\* the slip of checking the names of the variable labels only
HistogramCoreNewResult_var(desc, buckets, label_values) ==
  LET pairs == make_label_pairs(desc, label_values)
      b == check_and_adjust_buckets(buckets)
  IN IF \E i \in DOMAIN desc.variable_labels :
          check_bucket_lable(desc.variable_labels[i]).res = "err"
       THEN [res |-> "err", err |-> "Msg"]
     ELSE IF pairs.res = "panic" THEN [res |-> "panic"]
     ELSE IF b.res = "err" THEN b
     ELSE [res |-> "ok", metric |-> HistogramCoreNew(b.buckets), label_pairs |-> pairs.pairs]

\* HistogramCore::new on the descriptor desc and the buckets of the opts:
\* the check of every label name, the label pairs, the check of the buckets
HistogramCoreNewResult(desc, buckets, label_values) ==
  LET pairs == make_label_pairs(desc, label_values)
      b == check_and_adjust_buckets(buckets)
  IN IF \E i \in DOMAIN desc.variable_labels :
          check_bucket_lable(desc.variable_labels[i]).res = "err"
       THEN [res |-> "err", err |-> "Msg"]
     ELSE IF \E i \in DOMAIN desc.const_label_pairs :
          check_bucket_lable(desc.const_label_pairs[i].name).res = "err"
       THEN [res |-> "err", err |-> "Msg"]
     ELSE IF pairs.res = "panic" THEN [res |-> "panic"]
     ELSE IF b.res = "err" THEN b
     ELSE [res |-> "ok", metric |-> HistogramCoreNew(b.buckets), label_pairs |-> pairs.pairs]

\* Value::metric, Histogram::metric: the label pairs of the metric, cloned
MetricLabel(m) == m.label_pairs

(***************************************************************************)
(* SpecNew: one metric is constructed, then incremented and exported.      *)
(***************************************************************************)
NewCalls ==
  {[fn |-> "Value::new", desc |-> d, label_values |-> vals] :
     d \in DescInputs, vals \in LabelValueInputs}
  \cup {[fn |-> "HistogramCore::new", desc |-> d, buckets |-> B, label_values |-> vals] :
          d \in DescInputs, B \in OptsBucketInputs, vals \in LabelValueInputs}

InitNew ==
  /\ IdleCounter
  /\ IdleLocal
  /\ IdleOps
  /\ IdleVec
  /\ call \in NewCalls
  /\ result = [res |-> "none"]

\* the variables a step of SpecNew leaves alone
NewFrame ==
  UNCHANGED <<call, atomic, cell, pc, arg, old, issued, calls, retried, ncollect,
              localVars, opVars, vecVars>>

CallValueNew ==
  /\ result.res = "none"
  /\ call.fn = "Value::new"
  /\ result' = ValueNewLabelled(call.desc, from_i64(0), call.label_values)
  /\ UNCHANGED snap
  /\ NewFrame

CallHistogramCoreNew ==
  /\ result.res = "none"
  /\ call.fn = "HistogramCore::new"
  /\ result' = HistogramCoreNewResult(call.desc, call.buckets, call.label_values)
  /\ UNCHANGED snap
  /\ NewFrame

\* inc() on the counter that was constructed
CallNewInc ==
  /\ result.res = "ok"
  /\ call.fn = "Value::new"
  /\ result.metric.val < MaxDelta
  /\ result' = [result EXCEPT !.metric = ValueAfterIncBy(@, from_i64(1))]
  /\ UNCHANGED snap
  /\ NewFrame

\* metric() on the metric that was constructed
CallNewMetric ==
  /\ result.res = "ok"
  /\ snap' = [res |-> "ok", metric |-> <<[label |-> MetricLabel(result)]>>]
  /\ UNCHANGED result
  /\ NewFrame

NextNew ==
  \/ CallValueNew
  \/ CallHistogramCoreNew
  \/ CallNewInc
  \/ CallNewMetric

SpecNew == InitNew /\ [][NextNew]_vars

\* C23: the label pairs of a metric hold exactly one pair per variable
\* label name, with the label value passed at the position of that name,
\* and every constant label pair, in ascending order of the label names;
\* every snapshot of the metric shows these pairs.
C23_LabelPairs ==
  result.res = "ok" =>
    LET P == result.label_pairs
        D == call.desc
    IN /\ Len(P) = Len(D.variable_labels) + Len(D.const_label_pairs)
       /\ \A i \in DOMAIN D.variable_labels :
            Cardinality({j \in DOMAIN P : P[j].name = D.variable_labels[i]}) = 1
            /\ \E j \in DOMAIN P :
                 P[j] = LabelPairNew(D.variable_labels[i], call.label_values[i])
       /\ \A i \in DOMAIN D.const_label_pairs :
            \E j \in DOMAIN P : P[j] = D.const_label_pairs[i]
       /\ \A j \in DOMAIN P, k \in DOMAIN P :
            j < k => NameIndex(P[j].name) < NameIndex(P[k].name)
       /\ snap.res = "ok" => snap.metric[1].label = P

\* a counter with the variable labels l2, l1 and two constant labels was
\* incremented and then exported with its four pairs
C23_Witness ==
  /\ call.fn = "Value::new"
  /\ call.desc.variable_labels = <<"l2", "l1">>
  /\ Len(call.desc.const_label_pairs) = 2
  /\ result.res = "ok"
  /\ result.metric.val > 0
  /\ snap.res = "ok"
  /\ snap.metric[1].label =
       <<LabelPairNew("a", "x"), LabelPairNew("l1", call.label_values[2]),
         LabelPairNew("l2", call.label_values[1]), LabelPairNew("z", "y")>>

\* the descriptor of the call names the bucket label
NamesBucketLabel ==
  \/ \E i \in DOMAIN call.desc.variable_labels : call.desc.variable_labels[i] = "le"
  \/ \E i \in DOMAIN call.desc.const_label_pairs : call.desc.const_label_pairs[i].name = "le"

\* C24: the construction of a histogram whose variable label names or
\* constant label names include "le" returns an error, whatever the label
\* values and the buckets are, and yields no histogram.
C24_BucketLabelRefused ==
  (call.fn = "HistogramCore::new" /\ result.res # "none" /\ NamesBucketLabel) =>
    /\ result.res = "err"
    /\ DOMAIN result = {"res", "err"}

\* refused for a constant label le; refused for a variable label le although
\* the label values are too few
C24_Witness ==
  /\ call.fn = "HistogramCore::new"
  /\ result.res = "err"
  /\ \/ /\ call.desc.const_label_pairs = <<LabelPairNew("le", "x")>>
        /\ call.desc.variable_labels = <<"l1">>
        /\ call.label_values = <<"v1">>
        /\ call.buckets = <<F64(1), F64(2)>>
     \/ /\ call.desc.variable_labels = <<"l1", "le">>
        /\ call.label_values = <<"v1">>

\* C27: the construction of a histogram with a number of label values that
\* differs from the number of variable labels of its descriptor returns an
\* error and yields no histogram: it neither panics on a missing value nor
\* constructs a histogram from the values that fit.
C27_HistogramCardinality ==
  ( /\ call.fn = "HistogramCore::new"
    /\ result.res # "none"
    /\ Len(call.label_values) # Len(call.desc.variable_labels) ) =>
      /\ result.res = "err"
      /\ DOMAIN result = {"res", "err"}

(***************************************************************************)
(* MetricVecCore::get_metric_with_label_values under concurrent callers:   *)
(* the lookup under the read lock of the child map and, on a miss, the     *)
(* re-check and the insert under its write lock.                           *)
(***************************************************************************)
\* the lookup under the read lock
VecLookup(ch, vals) ==
  LET r == hash_label_values(vals)
  IN IF ~r.ok THEN [res |-> "err", err |-> r.err]
     ELSE IF r.hash \in DOMAIN ch THEN [res |-> "ok", id |-> ch[r.hash]]
     ELSE [res |-> "miss"]

\* with_label_values(vals) is entered by thread t: the child the lookup
\* found is returned, after a miss the thread goes for the write lock
GetMetricLookup(t, vals) ==
  LET r == VecLookup(children, vals)
  IN /\ pc[t] = "idle"
     /\ CASE r.res = "ok" ->
               /\ handle' = [handle EXCEPT ![t] = [id |-> r.id, vals |-> vals]]
               /\ UNCHANGED <<pc, arg>>
          [] r.res = "miss" ->
               /\ pc' = [pc EXCEPT ![t] = "miss"]
               /\ arg' = [arg EXCEPT ![t] = vals]
               /\ UNCHANGED handle
          [] OTHER -> UNCHANGED <<pc, arg, handle>>
     /\ UNCHANGED <<vtype, children, heap, lvec>>

\* thread t holds the write lock: the re-check, and the child built and
\* inserted when the map still has none; the child is returned
GetMetricInsert(t) ==
  LET r == VecResolved(children, heap, arg[t])
  IN /\ pc[t] = "miss"
     /\ children' = r.children
     /\ heap' = r.heap
     /\ handle' = [handle EXCEPT ![t] = [id |-> r.id, vals |-> arg[t]]]
     /\ pc' = [pc EXCEPT ![t] = "idle"]
     /\ UNCHANGED <<vtype, arg, lvec>>

(***************************************************************************)
(* SpecRace: the threads resolve children of one fresh CounterVec and      *)
(* increment them, in any interleaving of the steps of the lookups.        *)
(***************************************************************************)
InitRace ==
  /\ IdleCall
  /\ IdleLocal
  /\ IdleOps
  /\ atomic = "AtomicI64"
  /\ cell = 0
  /\ pc = [t \in Threads |-> "idle"]
  /\ arg = [t \in Threads |-> <<>>]
  /\ old = <<>>
  /\ issued = 0
  /\ calls = 0
  /\ retried = FALSE
  /\ snap = [res |-> "none"]
  /\ ncollect = 0
  /\ vtype = "counter"
  /\ children = <<>>
  /\ heap = <<>>
  /\ handle = [t \in Threads |-> [id |-> 0, vals |-> <<>>]]
  /\ lvec = <<>>
  /\ ret = [res |-> "none"]
  /\ stale = <<>>
  /\ removed = {}
  /\ applied = <<>>

\* the variables a step of SpecRace leaves alone
RaceFrame ==
  UNCHANGED <<atomic, cell, old, snap, ncollect, ret, stale, removed, applied,
              localVars, opVars, callVars>>

RaceWithLabelValues ==
  \E t \in Threads, vals \in TupleInputs :
    /\ calls < MaxCalls
    /\ calls' = calls + 1
    /\ GetMetricLookup(t, vals)
    /\ UNCHANGED <<issued, retried>>
    /\ RaceFrame

RaceInsert ==
  \E t \in Threads :
    /\ GetMetricInsert(t)
    /\ retried' = (retried \/ hash_label_values(arg[t]).hash \in DOMAIN children)
    /\ UNCHANGED <<issued, calls>>
    /\ RaceFrame

RaceIncBy ==
  \E t \in Threads, d \in 1 .. MaxDelta :
    /\ calls < MaxCalls
    /\ calls' = calls + 1
    /\ pc[t] = "idle"
    /\ HandleIncBy(t, d)
    /\ issued' = issued + d
    /\ UNCHANGED <<pc, arg, retried>>
    /\ UNCHANGED <<atomic, cell, old, snap, ncollect, stale, removed, applied,
                   localVars, opVars, callVars>>

NextRace ==
  \/ RaceWithLabelValues
  \/ RaceInsert
  \/ RaceIncBy

SpecRace == InitRace /\ [][NextRace]_vars

RECURSIVE SumOfChildren(_)
\* the sum of the values of the children the map holds under the hashes H
SumOfChildren(H) ==
  IF H = {} THEN 0
  ELSE LET h == CHOOSE x \in H : TRUE
       IN heap[children[h]].metric.val + SumOfChildren(H \ {h})

\* C25: when threads call with_label_values concurrently for tuples without
\* a child, one child is constructed per tuple and inserted: every child
\* ever constructed is the child the map holds for its tuple, every caller
\* holds the child of the map, and so every increment through a handle is
\* counted in a child of the map.
C25_OneChildPerTuple ==
  /\ Len(heap) = Cardinality(DOMAIN children)
  /\ \A id \in DOMAIN heap :
       LET r == hash_label_values(heap[id].label_values)
       IN r.ok /\ r.hash \in DOMAIN children /\ children[r.hash] = id
  /\ \A t \in Threads :
       handle[t].id # 0 =>
         children[hash_label_values(handle[t].vals).hash] = handle[t].id
  /\ SumOfChildren(DOMAIN children) = issued

\* two threads missed the same tuple under the read lock, the second found
\* the child of the first under the write lock, and an increment was made
C25_Witness ==
  /\ retried
  /\ Len(heap) = 1
  /\ \A t \in Threads : pc[t] = "idle"
  /\ handle[1].id = 1
  /\ handle[2].id = 1
  /\ issued > 0
  /\ heap[1].metric.val = issued

(***************************************************************************)
(* LocalHistogramTimer (histogram.rs): the timer of a local histogram      *)
(* holds a LocalHistogram of its own, the clone of the one that started it.*)
(***************************************************************************)
\* Clone for LocalHistogram: the core is cloned, then the clone is cleared
LocalHistogramClone(l) == LocalCoreClear(l)

\* LocalHistogram::start_timer on buffer b: local: self.clone(); the field
\* of is history, the buffer that started the timer
LocalHistogramStartTimer(b, k) ==
  /\ metric.type = "histogram"
  /\ local[b].state = "live"
  /\ timer[k].state = "none"
  /\ timer' = [timer EXCEPT ![k] = [state |-> "running", moved |-> FALSE,
                                     local |-> LocalHistogramClone(local[b]),
                                     of |-> b]]
  /\ UNCHANGED <<metric, local>>

\* Drop for LocalHistogramTimer: self.observe() into the timer's own
\* LocalHistogram, which is then dropped with the timer and flushes
LocalHistogramTimerDrop(k, v) ==
  /\ timer[k].state = "running"
  /\ metric' = LocalCoreFlushed(metric, LocalCoreObserve(timer[k].local, metric, v)).shared
  /\ timer' = [timer EXCEPT ![k] = [state |-> "done", moved |-> FALSE]]
  /\ UNCHANGED local

\* LocalHistogramTimer::observe_duration(self): drop(self)
LocalHistogramTimerObserveDuration(k, v) == LocalHistogramTimerDrop(k, v)

(***************************************************************************)
(* SpecLocalTimer: one fresh shared histogram, its local histograms and    *)
(* the timers started from them; every operation is one step.              *)
(***************************************************************************)
InitLocalTimer ==
  /\ InitLocal
  /\ metric.type = "histogram"
  /\ debug_assertions = TRUE

DoLocalStartTimer ==
  \E b \in Bufs, k \in Timers :
    Did("local_start_timer", b, k) /\ Wrote(FALSE) /\ LocalHistogramStartTimer(b, k)
      /\ UNCHANGED <<published, pending, tobs>>

DoLocalObserveDuration ==
  \E k \in Timers, v \in Values :
    /\ nops < MaxOps
    /\ timer[k].state = "running"
    /\ Did("local_observe_duration", timer[k].of, v)
    /\ LocalHistogramTimerObserveDuration(k, v)
    /\ Wrote(metric' # metric)
    /\ tobs' = [tobs EXCEPT ![k] = @ + 1]
    /\ published' = IF metric' # metric THEN BagAdd(published, v) ELSE published
    /\ UNCHANGED pending

NextLocalTimer ==
  \/ DoHistogramLocal
  \/ DoLocalHistogramObserve
  \/ DoLocalHistogramClear
  \/ DoLocalHistogramFlush
  \/ DoLocalHistogramDrop
  \/ DoLocalStartTimer
  \/ DoLocalObserveDuration

SpecLocalTimer == InitLocalTimer /\ [][NextLocalTimer]_vars

\* C26: a timer started from the local histogram L feeds its observation
\* into the delta of L: the step in which the timer ends leaves the shared
\* histogram unchanged and adds the observation to L, so that it reaches
\* the shared histogram with the flush or the drop of L and not at all when
\* L is cleared before.
C26_LocalTimerFeedsLocal ==
  [][last'.op = "local_observe_duration" =>
        /\ metric' = metric
        /\ local'[last'.who] = LocalCoreObserve(local[last'.who], metric, last'.v)
    ]_vars

\* every local vector over the vector is alive and holds no delta
AllLocalVecsFlushed ==
  \A n \in LocalVecs :
    /\ lvec[n].state # "dropped"
    /\ lvec[n].state = "live" =>
         \A h \in DOMAIN lvec[n].local : AccDelta(lvec[n].local[h]) = ZeroLocal

\* the vector holds a child for the hash h whose value is what was added
\* for the tuple since its last removal
ChildHoldsApplied(h) ==
  /\ h \in DOMAIN children
  /\ IF vtype = "counter"
       THEN heap[children[h]].metric.val = applied[h]
       ELSE heap[children[h]].metric.count = applied[h]

\* C28: in any interleaving of with_label_values, inc_by, observe, flush
\* and remove_label_values on the local vectors and on the vector, a flush
\* of a local vector never adds a delta to a child the vector no longer
\* holds, and once every local vector has flushed the child the vector
\* holds for a tuple has the value that was added for the tuple since its
\* last removal.
C28_FlushReachesCurrentChild ==
  [][/\ last'.op = "local_flush" =>
          \A h \in DOMAIN lvec[last'.who].local :
            AccDelta(lvec[last'.who].local[h]) # ZeroLocal =>
              /\ h \in DOMAIN children
              /\ children[h] = lvec[last'.who].local[h].child
     /\ AllLocalVecsFlushed' => \A h \in DOMAIN applied' : ChildHoldsApplied(h)'
    ]_vars

(***************************************************************************)
(* Conservation across the local counters of one shared counter.           *)
(***************************************************************************)
RECURSIVE PendingSum(_)
\* the sum of the deltas held by the local counters in S
PendingSum(S) ==
  IF S = {} THEN from_i64(0)
  ELSE LET b == CHOOSE x \in S : TRUE
       IN LocalCounterGet(b) + PendingSum(S \ {b})

LiveLocalCounters == {b \in Bufs : local[b].state = "live"}

\* C29: with any number of local counters over one shared counter, and
\* after any interleaving of their inc, inc_by and flush calls, as long as
\* no local counter was destroyed, the value of the shared counter plus the
\* sum of the deltas the local counters hold equals the sum of all the
\* increments applied so far.
C29_LocalCountersConserve ==
  (metric.type = "counter" /\ \A b \in Bufs : local[b].state # "dropped")
    => metric.val + PendingSum(LiveLocalCounters) = issued

\* two local counters over the shared counter, one of them just flushed
\* its delta into it
C29_Witness ==
  /\ metric.type = "counter"
  /\ last.op = "local_flush"
  /\ wrote
  /\ metric.val > 0
  /\ issued = metric.val
  /\ \A b \in Bufs : local[b].state # "dropped"
  /\ \E b \in LiveLocalCounters : b # last.who

(***************************************************************************)
(* SpecSnapshot: one shared histogram under concurrent observers, local    *)
(* histograms flushing into it, and a collector.  HistogramCore keeps one  *)
(* atomic cell per bucket, one for the count and one for the sum           *)
(* (histogram.rs:163-203); each inc_by and each get on a cell is one step, *)
(* and the steps of different threads interleave.  One thread calls        *)
(* observe on the histogram, another owns a local histogram, which is not  *)
(* Sync, and observes into it and flushes it; pc[t] is where thread t      *)
(* stands inside observe or flush, arg[t] what the call works on.  The     *)
(* collector is a thread of its own; snap holds the snapshot it is         *)
(* building and then the finished one, with the history field raced: some  *)
(* observe or flush was inside the shared histogram at some moment of the  *)
(* snapshot.  calls counts the calls of the three threads.                 *)
(***************************************************************************)
Observers == {"observer"}

LocalOwners == {"local"}

SnapshotThreads == Observers \cup LocalOwners

InitSnapshot ==
  /\ IdleCall
  /\ IdleVec
  /\ IdleOps
  /\ atomic = "AtomicI64"
  /\ cell = 0
  /\ old = <<>>
  /\ issued = 0
  /\ retried = FALSE
  /\ calls = 0
  /\ ncollect = 0
  /\ snap = [res |-> "none"]
  /\ pc = [t \in SnapshotThreads |-> "idle"]
  /\ arg = [t \in SnapshotThreads |-> 0]
  /\ metric \in {HistogramCoreNew(B) : B \in BucketLists}
  /\ local = [t \in LocalOwners |-> LocalHistogramCoreNew(metric)]
  /\ timer = <<>>
  /\ published = <<>>
  /\ pending = <<>>
  /\ tobs = <<>>
  /\ wrote = FALSE
  /\ debug_assertions = TRUE
  /\ panicked = FALSE

SnapshotFrame ==
  /\ UNCHANGED <<atomic, cell, old, issued, retried>>
  /\ UNCHANGED <<timer, published, pending, tobs, wrote, debug_assertions, panicked>>
  /\ UNCHANGED <<opVars, vecVars, callVars>>

\* a call that writes to the shared histogram begins while the collector
\* is reading
SnapRaced == IF snap.res = "reading" THEN [snap EXCEPT !.raced = TRUE] ELSE snap

\* HistogramCore::observe is entered: the search for the bucket
CoreObserveEnter(t, v) ==
  /\ pc[t] = "idle"
  /\ calls < MaxCalls
  /\ calls' = calls + 1
  /\ pc' = [pc EXCEPT ![t] = "observe_counts"]
  /\ arg' = [arg EXCEPT ![t] = [v |-> v, iter |-> FilterBounds(metric.upper_bounds, v)]]
  /\ snap' = SnapRaced
  /\ UNCHANGED <<metric, local, ncollect>>

\* if let Some((i, _)) = iter.next() { self.counts[i].inc_by(1); }
CoreObserveCounts(t) ==
  /\ pc[t] = "observe_counts"
  /\ metric' = [metric EXCEPT !.counts =
                  IF arg[t].iter # <<>> THEN [@ EXCEPT ![Head(arg[t].iter)] = @ + 1] ELSE @]
  /\ pc' = [pc EXCEPT ![t] = "observe_count"]
  /\ UNCHANGED <<arg, local, calls, snap, ncollect>>

\* self.count.inc_by(1)
CoreObserveCount(t) ==
  /\ pc[t] = "observe_count"
  /\ metric' = [metric EXCEPT !.count = @ + 1]
  /\ pc' = [pc EXCEPT ![t] = "observe_sum"]
  /\ UNCHANGED <<arg, local, calls, snap, ncollect>>

\* self.sum.inc_by(v), and observe returns
CoreObserveSum(t) ==
  /\ pc[t] = "observe_sum"
  /\ metric' = [metric EXCEPT !.sum = @ + arg[t].v]
  /\ pc' = [pc EXCEPT ![t] = "idle"]
  /\ arg' = [arg EXCEPT ![t] = 0]
  /\ UNCHANGED <<local, calls, snap, ncollect>>

\* LocalHistogram::observe on the thread's own buffer: no shared cell is
\* touched
LocalObserveStep(t, v) ==
  /\ pc[t] = "idle"
  /\ calls < MaxCalls
  /\ calls' = calls + 1
  /\ local' = [local EXCEPT ![t] = LocalCoreObserve(local[t], metric, v)]
  /\ UNCHANGED <<metric, pc, arg, snap, ncollect>>

\* LocalHistogramCore::flush is entered with something buffered (with
\* self.count == 0 it returns at once and no step is taken)
LocalCoreFlushEnter(t) ==
  /\ pc[t] = "idle"
  /\ calls < MaxCalls
  /\ local[t].count # 0
  /\ calls' = calls + 1
  /\ pc' = [pc EXCEPT ![t] = "flush_counts"]
  /\ arg' = [arg EXCEPT ![t] = 1]
  /\ snap' = SnapRaced
  /\ UNCHANGED <<metric, local, ncollect>>

\* the slip of adding the count of the buffer to every bucket
LocalCoreFlushCounts_count(t) ==
  /\ pc[t] = "flush_counts"
  /\ arg[t] <= Len(local[t].counts)
  /\ metric' = [metric EXCEPT !.counts[arg[t]] = @ + local[t].count]
  /\ arg' = [arg EXCEPT ![t] = @ + 1]
  /\ UNCHANGED <<pc, local, calls, snap, ncollect>>

\* one round of the loop over self.counts: h.core.counts[i].inc_by(*v)
\* when *v > 0
LocalCoreFlushCounts(t) ==
  /\ pc[t] = "flush_counts"
  /\ arg[t] <= Len(local[t].counts)
  /\ metric' = [metric EXCEPT !.counts[arg[t]] =
                  IF local[t].counts[arg[t]] > 0 THEN @ + local[t].counts[arg[t]] ELSE @]
  /\ arg' = [arg EXCEPT ![t] = @ + 1]
  /\ UNCHANGED <<pc, local, calls, snap, ncollect>>

\* h.core.count.inc_by(self.count), after the loop
LocalCoreFlushCount(t) ==
  /\ pc[t] = "flush_counts"
  /\ arg[t] > Len(local[t].counts)
  /\ metric' = [metric EXCEPT !.count = @ + local[t].count]
  /\ pc' = [pc EXCEPT ![t] = "flush_sum"]
  /\ UNCHANGED <<arg, local, calls, snap, ncollect>>

\* h.core.sum.inc_by(self.sum), then self.clear(), and flush returns
LocalCoreFlushSum(t) ==
  /\ pc[t] = "flush_sum"
  /\ metric' = [metric EXCEPT !.sum = @ + local[t].sum]
  /\ local' = [local EXCEPT ![t] = LocalCoreClear(local[t])]
  /\ pc' = [pc EXCEPT ![t] = "idle"]
  /\ arg' = [arg EXCEPT ![t] = 0]
  /\ UNCHANGED <<calls, snap, ncollect>>

\* HistogramCore::proto is entered: h.set_sample_sum(self.sum.get())
CoreProtoSum ==
  /\ snap.res # "reading"
  /\ calls < MaxCalls
  /\ calls' = calls + 1
  /\ ncollect' = ncollect + 1
  /\ snap' = [res |-> "reading", at |-> "count",
              h |-> [sample_sum |-> metric.sum],
              raced |-> \E t \in SnapshotThreads : pc[t] # "idle"]
  /\ UNCHANGED <<metric, local, pc, arg>>

\* h.set_sample_count(self.count.get()); let mut count = 0
CoreProtoCount ==
  /\ snap.res = "reading"
  /\ snap.at = "count"
  /\ snap' = [res |-> "reading", at |-> "bucket",
              h |-> [sample_sum |-> snap.h.sample_sum,
                     sample_count |-> metric.count,
                     bucket |-> <<>>],
              count |-> 0,
              raced |-> snap.raced]
  /\ UNCHANGED <<metric, local, pc, arg, calls, ncollect>>

\* the snapshot after one more round of the loop of proto:
\* count += self.counts[i].get(), and the bucket is pushed
ProtoBucketPushed(s, core) ==
  LET i == Len(s.h.bucket) + 1
      count == s.count + core.counts[i]
  IN [s EXCEPT !.count = count,
               !.h.bucket = Append(@, [cumulative_count |-> count,
                                       upper_bound |-> core.upper_bounds[i]])]

\* one round of the loop; after the last one proto returns h, which
\* Histogram::collect hands out
CoreProtoBucket ==
  /\ snap.res = "reading"
  /\ snap.at = "bucket"
  /\ LET s == ProtoBucketPushed(snap, metric)
     IN snap' = IF Len(s.h.bucket) = Len(metric.upper_bounds)
                  THEN [res |-> "ok", metric |-> <<s.h>>, raced |-> s.raced]
                  ELSE s
  /\ UNCHANGED <<metric, local, pc, arg, calls, ncollect>>

StepCoreObserveEnter ==
  \E t \in Observers, v \in Values : CoreObserveEnter(t, v) /\ SnapshotFrame

StepCoreObserveCounts == \E t \in Observers : CoreObserveCounts(t) /\ SnapshotFrame

StepCoreObserveCount == \E t \in Observers : CoreObserveCount(t) /\ SnapshotFrame

StepCoreObserveSum == \E t \in Observers : CoreObserveSum(t) /\ SnapshotFrame

StepLocalObserve ==
  \E t \in LocalOwners, v \in Values : LocalObserveStep(t, v) /\ SnapshotFrame

StepLocalCoreFlushEnter == \E t \in LocalOwners : LocalCoreFlushEnter(t) /\ SnapshotFrame

StepLocalCoreFlushCounts == \E t \in LocalOwners : LocalCoreFlushCounts(t) /\ SnapshotFrame

StepLocalCoreFlushCount == \E t \in LocalOwners : LocalCoreFlushCount(t) /\ SnapshotFrame

StepLocalCoreFlushSum == \E t \in LocalOwners : LocalCoreFlushSum(t) /\ SnapshotFrame

StepCoreProtoSum == CoreProtoSum /\ SnapshotFrame

StepCoreProtoCount == CoreProtoCount /\ SnapshotFrame

StepCoreProtoBucket == CoreProtoBucket /\ SnapshotFrame

NextSnapshot ==
  \/ StepCoreObserveEnter
  \/ StepCoreObserveCounts
  \/ StepCoreObserveCount
  \/ StepCoreObserveSum
  \/ StepLocalObserve
  \/ StepLocalCoreFlushEnter
  \/ StepLocalCoreFlushCounts
  \/ StepLocalCoreFlushCount
  \/ StepLocalCoreFlushSum
  \/ StepCoreProtoSum
  \/ StepCoreProtoCount
  \/ StepCoreProtoBucket

SpecSnapshot == InitSnapshot /\ [][NextSnapshot]_vars

\* TextEncoder::encode on a histogram: the values of the _bucket samples it
\* writes, one per bucket of the snapshot and then, no bucket having the
\* upper bound +Inf, the one labelled +Inf with the sample count
EncodedBuckets(h) ==
  [i \in 1 .. Len(h.bucket) |-> h.bucket[i].cumulative_count] \o <<h.sample_count>>

\* no count of the exported series is above a later one
NonDecreasing(series) ==
  \A i, j \in 1 .. Len(series) : i < j => series[i] <= series[j]

\* what the claim says of the finished snapshot h
SnapshotCumulative(h) ==
  /\ \A i \in 1 .. Len(h.bucket) : h.bucket[i].cumulative_count <= h.sample_count
  /\ NonDecreasing(EncodedBuckets(h))

\* C30 as stated: in every snapshot produced by collect(), one taken while
\* observe() or a local flush() is in flight on another thread included, the
\* cumulative count of each bucket is at most the sample count, and the
\* exported bucket series with its +Inf sample is non-decreasing.
C30_SnapshotCumulative ==
  snap.res = "ok" => SnapshotCumulative(snap.metric[1])

\* C30, amended: in every snapshot produced by collect() during which no
\* observe() and no local flush() was in flight on another thread, the
\* cumulative count of each bucket is at most the sample count, and the
\* exported bucket series with its +Inf sample is non-decreasing.
C30_QuietSnapshotCumulative ==
  (snap.res = "ok" /\ ~snap.raced) => SnapshotCumulative(snap.metric[1])

\* a snapshot taken with no call in flight and nothing left in a buffer,
\* after two observations of which the first bucket holds only one
C30_Witness ==
  /\ snap.res = "ok"
  /\ ~snap.raced
  /\ snap.metric[1].sample_count >= 2
  /\ snap.metric[1].bucket[1].cumulative_count >= 1
  /\ snap.metric[1].bucket[1].cumulative_count < snap.metric[1].sample_count
  /\ \A t \in SnapshotThreads : pc[t] = "idle"
  /\ \A t \in LocalOwners : local[t].count = 0

(***************************************************************************)
(* Errors of the local vector.                                             *)
(***************************************************************************)
\* C31: when remove_label_values(t) on a local vector returns an error, the
\* local vector still holds the same accumulators with the same pending
\* deltas as before the call, and the children of the shared vector are
\* unchanged.
C31_FailedLocalRemoveChangesNothing ==
  [][ (last'.op = "local_remove_label_values" /\ ret'.res = "err") =>
        /\ lvec' = lvec
        /\ children' = children
    ]_vars

(***************************************************************************)
(* The buckets of a constructed histogram.                                 *)
(***************************************************************************)
\* the histogram the call constructed has one count per upper bound, and so
\* has a local histogram over it
OneCountPerBound ==
  /\ Len(result.metric.counts) = Len(result.metric.upper_bounds)
  /\ Len(LocalHistogramCoreNew(result.metric).counts) = Len(result.metric.upper_bounds)

\* C32 as stated: every histogram that was constructed has at least one
\* upper bound, and exactly as many bucket counts, shared and local, as
\* upper bounds.
C32_AtLeastOneBucket ==
  (call.fn = "HistogramCore::new" /\ result.res = "ok") =>
    /\ result.metric.upper_bounds # <<>>
    /\ OneCountPerBound

\* C32, amended: every histogram that was constructed has exactly as many
\* bucket counts, shared and local, as upper bounds, and it has at least one
\* upper bound unless the bucket list passed was the single bound +Inf,
\* which is accepted and leaves the histogram without upper bounds.
C32_AtLeastOneBucketUnlessInf ==
  (call.fn = "HistogramCore::new" /\ result.res = "ok") =>
    /\ result.metric.upper_bounds = <<>> <=> call.buckets = <<INFINITY>>
    /\ OneCountPerBound

\* a histogram constructed from the buckets 1, +Inf keeps the bound 1 and
\* one count
C32_Witness ==
  /\ call.fn = "HistogramCore::new"
  /\ call.buckets = <<F64(1), INFINITY>>
  /\ result.res = "ok"
  /\ result.metric.upper_bounds = <<F64(1)>>
  /\ Len(result.metric.counts) = 1

LocalCounterClone(l) == LocalCounterNew

\* the slip of deriving Clone, which copies the delta with the buffer
LocalClone_derived(b, c) ==
  /\ metric.type \in {"counter", "histogram"}
  /\ local[b].state = "live"
  /\ local[c].state = "none"
  /\ local' = [local EXCEPT ![c] = local[b]]
  /\ UNCHANGED <<metric, timer>>

\* let c = b.clone() on a local counter or a local histogram
LocalClone(b, c) ==
  /\ metric.type \in {"counter", "histogram"}
  /\ local[b].state = "live"
  /\ local[c].state = "none"
  /\ local' = [local EXCEPT ![c] = IF metric.type = "counter"
                                     THEN LocalCounterClone(local[b])
                                     ELSE LocalHistogramClone(local[b])]
  /\ UNCHANGED <<metric, timer>>

CloneVecs == {"original", "clone"}

\* Clone for GenericLocalCounterVec and LocalHistogramVec:
\* Self::new(self.vec.clone()), a local vector with an empty map
LocalVecClone(n, m) ==
  /\ lvec[n].state = "live"
  /\ lvec[m].state = "none"
  /\ lvec' = [lvec EXCEPT ![m] = [state |-> "live", local |-> <<>>]]
  /\ ret' = [res |-> "ok"]
  /\ UNCHANGED <<vtype, children, heap, handle>>

InitCloneVec ==
  /\ IdleCall
  /\ IdleCounter
  /\ IdleLocal
  /\ vtype \in {"counter", "histogram"}
  /\ children = <<>>
  /\ heap = <<>>
  /\ handle = [t \in Threads |-> [id |-> 0, vals |-> <<>>]]
  /\ lvec = [n \in CloneVecs |-> [state |-> "none"]]
  /\ ret = [res |-> "none"]
  /\ stale = [t \in Threads |-> FALSE]
  /\ removed = {}
  /\ applied = <<>>
  /\ last = [op |-> "init", who |-> 0, v |-> 0, vals |-> <<>>]
  /\ nops = 0

\* the shared counter, or the shared histogram with the buckets
\* 1, .., MaxBound, in a build with debug assertions; or the vector
InitClone ==
  \/ /\ InitLocal
     /\ debug_assertions = TRUE
     /\ metric.type = "histogram" => metric.upper_bounds = [i \in 1 .. MaxBound |-> i]
  \/ InitCloneVec

MaxCloneOps == 6     \* operations performed in one behaviour of SpecClone

DoCloneCounterLocal ==
  \E b \in Bufs :
    /\ DidWithin(MaxCloneOps, "local", b, 0) /\ Wrote(FALSE)
    /\ CounterLocal(b)
    /\ \A c \in Bufs : local[c].state = "none"
    /\ UNCHANGED <<published, pending, tobs>>

DoCloneCounterIncBy ==
  \E b \in Bufs, d \in Deltas :
    /\ DidWithin(MaxCloneOps, "local_inc_by", b, d) /\ wrote' = FALSE
    /\ LocalCounterIncBy(b, d)
    /\ UNCHANGED <<published, pending, tobs>>

DoCloneCounterFlush ==
  \E b \in Bufs :
    /\ DidWithin(MaxCloneOps, "local_flush", b, 0)
    /\ LocalCounterFlush(b)
    /\ Wrote(LocalCounterFlushed(metric, local[b]).wrote)
    /\ UNCHANGED <<published, pending, tobs>>

DoCloneHistogramLocal ==
  \E b \in Bufs :
    /\ DidWithin(MaxCloneOps, "local", b, 0) /\ Wrote(FALSE)
    /\ HistogramLocal(b)
    /\ \A c \in Bufs : local[c].state = "none"
    /\ UNCHANGED <<published, pending, tobs>>

DoCloneHistogramObserve ==
  \E b \in Bufs, v \in Values :
    /\ DidWithin(MaxCloneOps, "local_observe", b, v) /\ Wrote(FALSE)
    /\ LocalHistogramObserve(b, v)
    /\ pending' = [pending EXCEPT ![b] = BagAdd(@, v)]
    /\ UNCHANGED <<published, tobs>>

DoCloneHistogramFlush ==
  \E b \in Bufs :
    /\ DidWithin(MaxCloneOps, "local_flush", b, 0)
    /\ LocalHistogramFlush(b)
    /\ Wrote(LocalCoreFlushed(metric, local[b]).wrote)
    /\ published' = BagUnion(published, pending[b])
    /\ pending' = [pending EXCEPT ![b] = EmptyBag]
    /\ UNCHANGED tobs

DoLocalClone ==
  \E b \in Bufs, c \in Bufs :
    /\ DidWithin(MaxCloneOps, "local_clone", b, c) /\ Wrote(FALSE)
    /\ LocalClone(b, c)
    /\ pending' = IF metric.type = "histogram" THEN [pending EXCEPT ![c] = EmptyBag]
                                               ELSE pending
    /\ UNCHANGED <<published, tobs>>

DoCloneVecLocal ==
  /\ vtype # "none"
  /\ DidVecWithin(MaxCloneOps, "local", "original", 0, <<>>)
  /\ VecLocal("original")
  /\ UNCHANGED <<removed, stale>>

DoCloneVecIncBy ==
  \E n \in CloneVecs, vals \in TupleInputs, d \in 0 .. MaxDelta :
    /\ vtype # "none"
    /\ DidVecWithin(MaxCloneOps, "local_inc_by", n, d, vals)
    /\ LocalVecIncBy(n, vals, d)
    /\ Resolves(vals)
    /\ UNCHANGED stale

DoCloneVecObserve ==
  \E n \in CloneVecs, vals \in TupleInputs, v \in VecValues :
    /\ vtype # "none"
    /\ DidVecWithin(MaxCloneOps, "local_observe", n, v, vals)
    /\ LocalVecObserve(n, vals, v)
    /\ Resolves(vals)
    /\ UNCHANGED stale

DoCloneVecFlush ==
  \E n \in CloneVecs :
    /\ vtype # "none"
    /\ DidVecWithin(MaxCloneOps, "local_flush", n, 0, <<>>)
    /\ LocalVecFlush(n)
    /\ UNCHANGED <<removed, stale>>

DoCloneVecClone ==
  \E n \in CloneVecs, m \in CloneVecs :
    /\ vtype # "none"
    /\ DidVecWithin(MaxCloneOps, "local_clone", n, m, <<>>)
    /\ LocalVecClone(n, m)
    /\ UNCHANGED <<removed, stale>>

NextClone ==
  \/ DoCloneCounterLocal
  \/ DoCloneCounterIncBy
  \/ DoCloneCounterFlush
  \/ DoCloneHistogramLocal
  \/ DoCloneHistogramObserve
  \/ DoCloneHistogramFlush
  \/ DoLocalClone
  \/ DoCloneVecLocal
  \/ DoCloneVecIncBy
  \/ DoCloneVecObserve
  \/ DoCloneVecFlush
  \/ DoCloneVecClone

SpecClone == InitClone /\ [][NextClone]_vars

RECURSIVE PendingBag(_)
\* history: the observations buffered in the local histograms in S
PendingBag(S) ==
  IF S = {} THEN EmptyBag
  ELSE LET b == CHOOSE x \in S : TRUE
       IN BagUnion(pending[b], PendingBag(S \ {b}))

\* every local buffer that was made holds no delta
AllLocalsFlushed ==
  \A b \in Bufs : local[b].state = "live" => ZeroDelta(local[b])

\* the shared metric holds every increment and every observation made
\* through the local buffers, once each
SharedHoldsAll ==
  IF metric.type = "counter"
    THEN metric.val = issued
    ELSE LET all == BagUnion(published, PendingBag(Bufs))
         IN /\ metric.count = BagSize(all)
            /\ metric.sum = BagSum(all)
            /\ \A i \in DOMAIN metric.upper_bounds :
                 RunningCount(metric.counts, i) = BagCountLeq(all, metric.upper_bounds[i])

\* every local vector that was made holds no delta
AllCloneVecsFlushed ==
  \A n \in CloneVecs :
    lvec[n].state = "live" =>
      \A h \in DOMAIN lvec[n].local : AccDelta(lvec[n].local[h]) = ZeroLocal

\* C34: the clone of a local counter, of a local histogram or of a local
\* vector is a buffer over the same shared metric that holds no delta, and
\* cloning leaves the delta of the original and the shared metric as they
\* were; once the original and the clone have flushed, the shared metric
\* holds every increment and observation made through them exactly once.
C34_CloneStartsEmpty ==
  [][ IF vtype = "none"
        THEN /\ last'.op = "local_clone" =>
                  /\ local'[last'.v].state = "live"
                  /\ ZeroDelta(local'[last'.v])
                  /\ \A b \in Bufs \ {last'.v} : local'[b] = local[b]
                  /\ metric' = metric
             /\ AllLocalsFlushed' => SharedHoldsAll'
        ELSE /\ last'.op = "local_clone" =>
                  /\ lvec'[last'.v] = [state |-> "live", local |-> <<>>]
                  /\ lvec'[last'.who] = lvec[last'.who]
                  /\ children' = children
                  /\ heap' = heap
             /\ AllCloneVecsFlushed' => \A h \in DOMAIN applied' : ChildHoldsApplied(h)'
    ]_vars

\* the original and its clone have both buffered and both flushed: a local
\* histogram and its clone, or a local vector and its clone
C34_Witness ==
  \/ /\ vtype = "none"
     /\ metric.type = "histogram"
     /\ last.op = "local_flush"
     /\ wrote
     /\ Cardinality({b \in Bufs : local[b].state = "live"}) = 2
     /\ AllLocalsFlushed
     /\ metric.count = 2
     /\ nops = MaxCloneOps
  \/ /\ vtype = "counter"
     /\ last.op = "local_flush"
     /\ last.who = "clone"
     /\ AllCloneVecsFlushed
     /\ lvec["original"].state = "live"
     /\ \E h \in DOMAIN applied :
          /\ applied[h] = 2
          /\ h \in DOMAIN lvec["original"].local
          /\ h \in DOMAIN lvec["clone"].local
     /\ nops = MaxCloneOps

(***************************************************************************)
(* SpecEquiv: the same values observed on a histogram directly and through *)
(* a local histogram that is then flushed.  The bounds and the sums are    *)
(* f64 here: the sum cell is an AtomicF64 and the sum of the buffer a f64, *)
(* and f64 addition rounds.  result.shared is the histogram the buffer     *)
(* flushes into; result.direct is a copy of it as it was when the buffer   *)
(* was last empty, with the values buffered since observed on it directly; *)
(* result.from is history, the sum of the histogram before the last flush. *)
(***************************************************************************)
MaxEquivObs == 4     \* observations made in one behaviour of SpecEquiv

\* the bucket lists of BucketLists, as f64
EquivBuckets == {[i \in DOMAIN B |-> F64(B[i])] : B \in BucketLists}

\* the values observed: on a bound, the largest finite f64 and its negative
EquivValues == {F64(1), F64(F64Max), F64(-F64Max)}

\* HistogramCore::new on validated buckets
HistogramCoreNewF64(buckets) ==
  [upper_bounds |-> buckets,
   counts |-> [i \in 1 .. Len(buckets) |-> AtomicNew(0)],
   count |-> AtomicNew(0),
   sum |-> F64(0)]

\* upper_bounds.iter().enumerate().filter(|&(_, f)| v <= *f) on f64
FilterBoundsF64(upper_bounds, v) ==
  SelectSeq([i \in 1 .. Len(upper_bounds) |-> i], LAMBDA i : F64Le(v, upper_bounds[i]))

\* HistogramCore::observe
HistogramCoreObserveF64(core, v) ==
  LET iter == FilterBoundsF64(core.upper_bounds, v)
  IN [core EXCEPT !.counts = IF iter # <<>> THEN [@ EXCEPT ![Head(iter)] = @ + 1] ELSE @,
                  !.count = @ + 1,
                  !.sum = F64Add(@, v)]

\* LocalHistogramCore::new
LocalHistogramCoreNewF64(histogram) ==
  [counts |-> [i \in 1 .. Len(histogram.counts) |-> 0], count |-> 0, sum |-> F64(0)]

\* the slip of comparing with < instead of <=
LocalHistogramCoreObserveF64_lt(l, histogram, v) ==
  LET iter == SelectSeq([i \in 1 .. Len(histogram.upper_bounds) |-> i],
                        LAMBDA i : F64Lt(v, histogram.upper_bounds[i]))
  IN [l EXCEPT !.counts = IF iter # <<>> THEN [@ EXCEPT ![Head(iter)] = @ + 1] ELSE @,
               !.count = @ + 1,
               !.sum = F64Add(@, v)]

\* LocalHistogramCore::observe
LocalHistogramCoreObserveF64(l, histogram, v) ==
  LET iter == FilterBoundsF64(histogram.upper_bounds, v)
  IN [l EXCEPT !.counts = IF iter # <<>> THEN [@ EXCEPT ![Head(iter)] = @ + 1] ELSE @,
               !.count = @ + 1,
               !.sum = F64Add(@, v)]

\* LocalHistogramCore::flush with something buffered: the histogram after it
LocalHistogramCoreFlushedF64(histogram, l) ==
  [histogram EXCEPT
     !.counts = [i \in DOMAIN @ |-> IF l.counts[i] > 0 THEN @[i] + l.counts[i] ELSE @[i]],
     !.count = @ + l.count,
     !.sum = F64Add(@, l.sum)]

InitEquiv ==
  /\ IdleCounter
  /\ IdleLocal
  /\ IdleOps
  /\ IdleVec
  /\ call \in {[fn |-> "Histogram::observe", buckets |-> B] : B \in EquivBuckets}
  /\ result = [res |-> "ok",
               direct |-> HistogramCoreNewF64(call.buckets),
               shared |-> HistogramCoreNewF64(call.buckets),
               local |-> LocalHistogramCoreNewF64(HistogramCoreNewF64(call.buckets)),
               from |-> F64(0),
               observed |-> 0]

EquivFrame == UNCHANGED <<call, counterVars, localVars, opVars, vecVars>>

\* observe(v) on the local histogram, and on the direct copy
EquivObserve ==
  \E v \in EquivValues :
    /\ result.observed < MaxEquivObs
    /\ result' = [result EXCEPT
         !.direct = HistogramCoreObserveF64(
                      IF result.local.count = 0 THEN result.shared ELSE @, v),
         !.local = LocalHistogramCoreObserveF64(@, result.shared, v),
         !.observed = @ + 1]
    /\ EquivFrame

\* flush() of the local histogram, then clear(); with self.count == 0 flush
\* returns at once and nothing changes
EquivFlush ==
  /\ result.local.count # 0
  /\ result' = [result EXCEPT
       !.shared = LocalHistogramCoreFlushedF64(@, result.local),
       !.local = LocalHistogramCoreNewF64(result.shared),
       !.from = result.shared.sum]
  /\ EquivFrame

NextEquiv ==
  \/ EquivObserve
  \/ EquivFlush

SpecEquiv == InitEquiv /\ [][NextEquiv]_vars

\* C35 as stated: for every sequence of values, observing them on a local
\* histogram and then flushing leaves the shared histogram with the same
\* bucket counts, the same count and the same sum as observing the values
\* directly on the shared histogram.
C35_BufferedEqualsDirect ==
  result.local.count = 0 =>
    /\ result.shared.counts = result.direct.counts
    /\ result.shared.count = result.direct.count
    /\ result.shared.sum = result.direct.sum

\* C35, amended: for every sequence of values, observing them on a local
\* histogram and then flushing leaves the shared histogram with the same
\* bucket counts and the same count as observing the values directly on the
\* shared histogram, and with the same sum when the sum of the shared
\* histogram was 0 before.
C35_BufferedEqualsDirectFromZero ==
  result.local.count = 0 =>
    /\ result.shared.counts = result.direct.counts
    /\ result.shared.count = result.direct.count
    /\ result.from = F64(0) => result.shared.sum = result.direct.sum

\* three values, in a bucket and above the buckets, were flushed at once
\* into the new histogram
C35_Witness ==
  /\ result.local.count = 0
  /\ result.from = F64(0)
  /\ result.shared.count = 3
  /\ result.shared.counts[1] = 2
  /\ result.shared.sum = F64(1)
  /\ result.direct.sum = F64(1)

(***************************************************************************)
(* SpecHash: the keys of the child map and of the local map.  The vector   *)
(* keeps its children, and GenericLocalCounterVec its accumulators         *)
(* (local: HashMap<u64, GenericLocalCounter<P>>), under the u64 that       *)
(* hash_label_values returns for the label values; the label values        *)
(* themselves are no part of the key.  hash_label_values feeds the bytes   *)
(* of the values, in order, to a hasher.  Whether it writes SEPARATOR_BYTE *)
(* between two values is not to be seen in counter.rs or metrics.rs, so    *)
(* both are possible here: call.separator.  Label values are sequences of  *)
(* bytes in this specification.                                            *)
(***************************************************************************)
HashBits   == 12     \* width of the hash in the model (u64 in the code)
MaxHashOps == 3      \* operations performed in one behaviour of SpecHash

\* the label values the callers pass: "a", "ab", "bc", "c"
ByteStrings == {<<1>>, <<1, 2>>, <<2, 3>>, <<3>>}

\* the tuples for the two variable labels
ByteTuples == {<<x, y>> : x \in ByteStrings, y \in ByteStrings}

\* SEPARATOR_BYTE, as a byte of the model
SEPARATOR_BYTE == 4

RECURSIVE HasherWrite(_, _)
\* Hasher::write: the hash h after the bytes were fed to it
HasherWrite(h, bytes) ==
  IF bytes = <<>> THEN h
  ELSE HasherWrite((h * 5 + Head(bytes)) % (2 ^ HashBits), Tail(bytes))

RECURSIVE HashValues(_, _, _)
\* for val in vals { h.write(val.as_bytes()); }, with or without the
\* separator after each value
HashValues(h, vals, separator) ==
  IF vals = <<>> THEN h
  ELSE HashValues(
         HasherWrite(h, IF separator THEN Append(Head(vals), SEPARATOR_BYTE) ELSE Head(vals)),
         Tail(vals), separator)

\* MetricVecCore::hash_label_values on a tuple of the right length
HashOf(vals) == HashValues(0, vals, call.separator)

\* MetricVec::with_label_values: the child under the hash of vals, created
\* with the label values vals when the map has none
HashVecResolved(ch, hp, vals) ==
  IF HashOf(vals) \in DOMAIN ch
    THEN [children |-> ch, heap |-> hp, id |-> ch[HashOf(vals)]]
    ELSE [children |-> (HashOf(vals) :> Len(hp) + 1) @@ ch,
          heap |-> Append(hp, [label_values |-> vals, val |-> from_i64(0)]),
          id |-> Len(hp) + 1]

InitHash ==
  /\ IdleCounter
  /\ IdleLocal
  /\ call \in {[fn |-> "hash_label_values", separator |-> b] : b \in BOOLEAN}
  /\ result = [res |-> "none"]
  /\ vtype = "counter"
  /\ children = <<>>
  /\ heap = <<>>
  /\ handle = <<>>
  /\ lvec = [state |-> "live", local |-> <<>>]
  /\ ret = [res |-> "none"]
  /\ stale = <<>>
  /\ removed = {}
  /\ applied = [t \in ByteTuples |-> 0]
  /\ last = [op |-> "init", vals |-> <<>>]
  /\ nops = 0

\* one more operation of SpecHash; applied is history, the number of
\* increments made for each tuple
HashDid(op, vals) ==
  /\ nops < MaxHashOps
  /\ nops' = nops + 1
  /\ last' = [op |-> op, vals |-> vals]
  /\ applied' = IF vals \in ByteTuples THEN [applied EXCEPT ![vals] = @ + 1] ELSE applied
  /\ UNCHANGED <<counterVars, localVars, callVars, vtype, handle, stale, removed>>

\* vec.with_label_values(vals).inc()
HashVecInc ==
  \E vals \in ByteTuples :
    LET r == HashVecResolved(children, heap, vals)
    IN /\ HashDid("inc", vals)
       /\ children' = r.children
       /\ heap' = [r.heap EXCEPT ![r.id].val = @ + from_i64(1)]
       /\ ret' = [res |-> "ok", child |-> r.id, key |-> HashOf(vals)]
       /\ UNCHANGED lvec

\* local.with_label_values(vals).inc(): self.local.entry(hash)
\* .or_insert_with(|| vec.with_label_values(vals).local()), then inc
HashLocalInc ==
  \E vals \in ByteTuples :
    LET r == HashVecResolved(children, heap, vals)
        hash == HashOf(vals)
    IN /\ HashDid("local_inc", vals)
       /\ IF hash \in DOMAIN lvec.local
            THEN /\ lvec' = [lvec EXCEPT !.local[hash].val = @ + from_i64(1)]
                 /\ UNCHANGED <<children, heap>>
                 /\ ret' = [res |-> "ok", child |-> lvec.local[hash].child, key |-> hash]
            ELSE /\ lvec' = [lvec EXCEPT !.local =
                               (hash :> [child |-> r.id, val |-> from_i64(1)]) @@ @]
                 /\ children' = r.children
                 /\ heap' = r.heap
                 /\ ret' = [res |-> "ok", child |-> r.id, key |-> hash]

RECURSIVE HashFlushed(_, _, _)
\* for h in self.local.values_mut() { h.flush(); }: the heap after it
HashFlushed(hp, loc, todo) ==
  IF todo = {} THEN hp
  ELSE LET h == CHOOSE x \in todo : TRUE
       IN HashFlushed([hp EXCEPT ![loc[h].child].val = @ + loc[h].val], loc, todo \ {h})

\* local.flush()
HashLocalFlush ==
  /\ HashDid("local_flush", <<>>)
  /\ heap' = HashFlushed(heap, lvec.local, DOMAIN lvec.local)
  /\ lvec' = [lvec EXCEPT !.local = [h \in DOMAIN @ |-> [@[h] EXCEPT !.val = from_i64(0)]]]
  /\ ret' = [res |-> "ok"]
  /\ UNCHANGED children

NextHash ==
  \/ HashVecInc
  \/ HashLocalInc
  \/ HashLocalFlush

SpecHash == InitHash /\ [][NextHash]_vars

MaxLockCalls == 3    \* calls started in one behaviour of SpecLock

\* the calls of SpecLock
LockOps == {"with_label_values", "remove_label_values", "collect", "local"}

\* the slip of keeping the read guard of the lookup alive while the thread
\* waits for the write lock
Readers_held == {t \in Threads : pc[t] \in {"reading", "want_write"}}

\* the threads that hold a read guard of children
Readers == {t \in Threads : pc[t] = "reading"}

\* the threads that hold the write guard of children
Writers == {t \in Threads : pc[t] = "writing"}

\* the variables a step of SpecLock leaves alone
LockFrame ==
  UNCHANGED <<atomic, cell, old, issued, retried, ncollect, stale, removed, applied,
              vtype, localVars, opVars, callVars>>

\* the call of thread t returns: the thread is outside of any call again
LockReturn(t) ==
  /\ pc' = [pc EXCEPT ![t] = "idle"]
  /\ arg' = [arg EXCEPT ![t] = <<>>]

\* thread t enters a call: hash_label_values comes before any lock, and its
\* error is returned at once; a removal goes for the write lock, every
\* other call for the read lock
LockCall(t) ==
  \E op \in LockOps, vals \in TupleInputs :
    /\ pc[t] = "idle"
    /\ calls < MaxLockCalls
    /\ calls' = calls + 1
    /\ (op \in {"collect", "local"}) => vals = <<"v1", "v2">>
    /\ IF op \in {"with_label_values", "remove_label_values"} /\ ~hash_label_values(vals).ok
         THEN /\ ret' = [res |-> "err", err |-> hash_label_values(vals).err]
              /\ UNCHANGED <<pc, arg>>
         ELSE /\ arg' = [arg EXCEPT ![t] = [op |-> op, vals |-> vals]]
              /\ pc' = [pc EXCEPT ![t] =
                          IF op = "remove_label_values" THEN "want_write" ELSE "want_read"]
              /\ UNCHANGED ret
    /\ UNCHANGED <<children, heap, handle, lvec, snap>>
    /\ LockFrame

\* children.read() returns to thread t: no thread holds the write guard
LockRead(t) ==
  /\ pc[t] = "want_read"
  /\ Writers = {}
  /\ pc' = [pc EXCEPT ![t] = "reading"]
  /\ UNCHANGED <<arg, calls, children, heap, handle, lvec, ret, snap>>
  /\ LockFrame

\* thread t under the read guard: the lookup of with_label_values, which
\* returns the child or, after a miss, goes for the write lock; collect,
\* which returns the children; local, which reads the number of children;
\* the guard is dropped
LockReading(t) ==
  /\ pc[t] = "reading"
  /\ CASE arg[t].op = "with_label_values" ->
            LET r == VecLookup(children, arg[t].vals)
            IN IF r.res = "ok"
                 THEN /\ ret' = [res |-> "ok", id |-> r.id]
                      /\ LockReturn(t)
                 ELSE /\ pc' = [pc EXCEPT ![t] = "want_write"]
                      /\ UNCHANGED <<ret, arg>>
       [] arg[t].op = "collect" ->
            /\ ret' = [res |-> "ok", children |-> VecCollect(children, heap)]
            /\ LockReturn(t)
       [] OTHER ->
            /\ ret' = [res |-> "ok", capacity |-> Cardinality(DOMAIN children)]
            /\ LockReturn(t)
  /\ UNCHANGED <<calls, children, heap, handle, lvec, snap>>
  /\ LockFrame

\* children.write() returns to thread t: no thread holds a guard
LockWrite(t) ==
  /\ pc[t] = "want_write"
  /\ Readers = {}
  /\ Writers = {}
  /\ pc' = [pc EXCEPT ![t] = "writing"]
  /\ UNCHANGED <<arg, calls, children, heap, handle, lvec, ret, snap>>
  /\ LockFrame

\* thread t under the write guard: the re-check and the insert of
\* with_label_values, or the erase of remove_label_values; the guard is
\* dropped and the call returns
LockWriting(t) ==
  /\ pc[t] = "writing"
  /\ IF arg[t].op = "with_label_values"
       THEN LET r == VecResolved(children, heap, arg[t].vals)
            IN /\ children' = r.children
               /\ heap' = r.heap
               /\ ret' = [res |-> "ok", id |-> r.id]
       ELSE LET r == VecDeleted(children, arg[t].vals)
            IN /\ children' = r.children
               /\ ret' = [res |-> r.res, err |-> r.err]
               /\ UNCHANGED heap
  /\ LockReturn(t)
  /\ UNCHANGED <<calls, handle, lvec, snap>>
  /\ LockFrame

\* a step of thread t inside a call
LockStep(t) ==
  \/ LockRead(t)
  \/ LockReading(t)
  \/ LockWrite(t)
  \/ LockWriting(t)

StepLockCall == \E t \in Threads : LockCall(t)
StepLockRead == \E t \in Threads : LockRead(t)
StepLockReading == \E t \in Threads : LockReading(t)
StepLockWrite == \E t \in Threads : LockWrite(t)
StepLockWriting == \E t \in Threads : LockWriting(t)

InitLock == InitRace

NextLock ==
  \/ StepLockCall
  \/ StepLockRead
  \/ StepLockReading
  \/ StepLockWrite
  \/ StepLockWriting

SpecLock == InitLock /\ [][NextLock]_vars

\* Fair scheduling: a thread that is inside a call and can take its next
\* step for good, under a guard or by getting the lock, takes it.
LockFairness == \A t \in Threads : WF_vars(LockStep(t))

SpecLockFair == SpecLock /\ LockFairness

MaxLines == 3        \* lines the server sends before it closes or goes silent

\* the number of bytes of the words of the responses
Bytes(w) ==
  CASE w = "" -> 0
    [] w = "202" -> 3
    [] w = "400" -> 3
    [] w = "HTTP/1.1" -> 8
    [] w = "Accepted" -> 8
    [] w = "Bad" -> 3
    [] w = "Content-Length:" -> 15
    [] w = "0" -> 1

\* the lines a server sends: two status lines, a header, the blank line
\* that ends the headers, and a blank line that ends with "\n" alone
LineInputs ==
  { [words |-> <<"HTTP/1.1", "202", "Accepted">>, eol |-> "\r\n"],
    [words |-> <<"HTTP/1.1", "400", "Bad">>, eol |-> "\r\n"],
    [words |-> <<"Content-Length:", "0">>, eol |-> "\r\n"],
    [words |-> <<"">>, eol |-> "\r\n"],
    [words |-> <<"">>, eol |-> "\n"] }

\* what the server does after its last line
ServerEnds == {"close", "silent"}

RECURSIVE LinesUpTo(_)
\* the sequences of at most n lines
LinesUpTo(n) ==
  IF n = 0 THEN {<<>>}
  ELSE LET shorter == LinesUpTo(n - 1)
       IN shorter \cup {Append(q, l) : q \in shorter, l \in LineInputs}

RECURSIVE WordBytes(_)
\* the bytes of the words of a line and of the spaces between them
WordBytes(words) ==
  IF Len(words) = 1 THEN Bytes(words[1])
  ELSE Bytes(Head(words)) + 1 + WordBytes(Tail(words))

\* the number read_line returns for a line: its bytes, line end included
LineBytes(l) == WordBytes(l.words) + (IF l.eol = "\r\n" THEN 2 ELSE 1)

\* parse_resp: the second word of the first line of the response
parse_resp(resp) ==
  IF resp = <<>> THEN [res |-> "err", err |-> "empty response"]
  ELSE IF Len(resp[1].words) < 2 THEN [res |-> "err", err |-> "empty status code"]
  ELSE [res |-> "ok", status_code |-> resp[1].words[2]]

\* the end of push, with the response read up to the end of the headers
PushParsed(resp) ==
  LET r == parse_resp(resp)
  IN IF r.res = "err" THEN r
     ELSE IF r.status_code # "202"
       THEN [res |-> "err", err |-> "unexpected status code", status_code |-> r.status_code]
       ELSE [res |-> "ok"]

InitPush ==
  /\ IdleCounter
  /\ IdleLocal
  /\ IdleVec
  /\ call \in {[fn |-> "push", lines |-> q, end |-> e, pos |-> 0, buf |-> <<>>] :
                 q \in LinesUpTo(MaxLines), e \in ServerEnds}
  /\ result = [res |-> "none"]
  /\ last = [op |-> "init"]
  /\ nops = 0

\* one turn of the loop: br.read_line(&mut buf)?, and the break after a
\* line of two bytes, with parse_resp and the check of the status code.
\* After the last line of a server that closed the connection read_line
\* returns Ok(0) and appends nothing; on a silent connection the read
\* timeout of 5 seconds ends it with an error, which `?` returns.
PushReadLine ==
  /\ call.fn = "push"
  /\ result.res = "none"
  /\ IF call.pos < Len(call.lines)
       THEN LET l == call.lines[call.pos + 1]
                buf == Append(call.buf, l)
            IN /\ call' = [call EXCEPT !.pos = @ + 1, !.buf = buf]
               /\ last' = [op |-> "read_line", num |-> LineBytes(l)]
               /\ result' = IF LineBytes(l) = 2 THEN PushParsed(buf) ELSE result
       ELSE IF call.end = "silent"
         THEN /\ result' = [res |-> "err", err |-> "Io"]
              /\ last' = [op |-> "read_line", num |-> -1]
              /\ UNCHANGED call
         ELSE /\ last' = [op |-> "read_line", num |-> 0]
              /\ UNCHANGED <<call, result>>
  /\ UNCHANGED <<counterVars, localVars, vecVars, nops>>

NextPush == PushReadLine

SpecPush == InitPush /\ [][NextPush]_vars

\* Fair scheduling: the thread inside push keeps running.
SpecPushFair == SpecPush /\ WF_vars(PushReadLine)

\* C38: once the request is written, push returns Ok or an error whatever
\* the server does: whatever lines it sends, and whether it then closes the
\* connection or leaves it open, the loop that reads the response ends.
C38_PushReturns == <>(result.res # "none")

====
